---- MODULE Spec2Model ----
(***************************************************************************)
(* Teleporter dispatch core: the order lifecycle driven by the API         *)
(* handlers (orders, payments, webhooks, riders) and the OTP service.      *)
(***************************************************************************)
EXTENDS Integers, Sequences, FiniteSets, TLC

(* ------------------------------------------------------------------ *)
(* Bounds of the model                                                  *)
(* ------------------------------------------------------------------ *)
MaxClock == 4
MaxOrders == 2
MaxFailed == 4

(* ------------------------------------------------------------------ *)
(* Program constants                                                    *)
(* ------------------------------------------------------------------ *)
MAX_OTP_ATTEMPTS == 3
MAX_PARCELS_PER_ROUTE == 5
BATCH_THRESHOLD == 5
ZONE_RADIUS_KM == 25

None == "None"

\* a NULL numeric column, and a numeric column holding x
Null == << >>

Some(x) == << x >>

Val(c) == c[1]

OrderIds == 1..MaxOrders
Riders == {"r1", "r2"}
Warehouses == {"w1"}
Legs == {"pickup", "drop"}
Codes == {"111111", "222222"}
Procs == {"p1", "p2"}

\* order_status enum, in lifecycle order
StatusChain ==
  << "ORDER_PLACED", "PAYMENT_CONFIRMED", "PICKUP_SCHEDULED",
     "PICKUP_RIDER_ASSIGNED", "PICKUP_EN_ROUTE", "PICKED_UP",
     "IN_TRANSIT_TO_WAREHOUSE", "AT_WAREHOUSE", "ROUTE_OPTIMIZED",
     "DELIVERY_RIDER_ASSIGNED", "OUT_FOR_DELIVERY", "DELIVERED", "COMPLETED" >>

OrderStatus ==
  { StatusChain[i] : i \in 1..Len(StatusChain) } \cup {"CANCELLED", "REFUNDED"}

RiderStatus == {"ON_DUTY", "OFF_DUTY", "ON_DELIVERY", "ON_PICKUP"}

TerminalStatus == {"COMPLETED", "CANCELLED", "REFUNDED"}

VARIABLES
  orders,     \* orders table: order id -> row
  events,     \* order_events table: order id -> sequence of event rows
  riders,     \* riders table: rider id -> row
  routes,     \* delivery_routes table: sequence of rows (index = route id)
  otp,        \* Redis OTP store: <<order id, leg>> -> [hash, attempts]
  clock,      \* datetime.utcnow(), one tick per request
  response,   \* response of the last request
  failed,     \* history: failed verifications per key since its last generation
  used,       \* history: <<key, code>> accepted since the key's last generation
  sess        \* per-request session state of the in-flight concurrent requests

vars == << orders, events, riders, routes, otp, clock, response, failed, used, sess >>

OtpKeys == OrderIds \X Legs

(* ------------------------------------------------------------------ *)
(* services/otp.py                                                      *)
(* ------------------------------------------------------------------ *)
Salt == "salt"

bcrypt_hashpw(pw, salt) == [salt |-> salt, digest |-> << salt, pw >>]

bcrypt_checkpw(pw, h) == bcrypt_hashpw(pw, h.salt) = h

\* the store after generate_otp(order_id, otp_type) drew `code`
generate_otp(store, key, code) ==
  [k \in (DOMAIN store) \cup {key} |->
     IF k = key THEN [hash |-> bcrypt_hashpw(code, Salt), attempts |-> 0]
     ELSE store[k]]

\* a Redis hash that has no "hash" field
NoHash == [salt |-> None, digest |-> << >>]

\* HINCRBY key attempts 1: Redis creates the hash when the key is gone
hincrby(store, key) ==
  IF key \in DOMAIN store
    THEN [store EXCEPT ![key].attempts = @ + 1]
    ELSE [k \in (DOMAIN store) \cup {key} |->
            IF k = key THEN [hash |-> NoHash, attempts |-> 1] ELSE store[k]]

redis_delete(store, key) ==
  [k \in (DOMAIN store) \ {key} |-> store[k]]

\* verify_otp with the attempt limit tested one too late
verify_otp_limit_late(store, key, provided) ==
  IF key \notin DOMAIN store
    THEN [result |-> [valid |-> FALSE, error |-> "expired", remaining |-> 0],
          store |-> store]
  ELSE IF store[key].attempts > MAX_OTP_ATTEMPTS
    THEN [result |-> [valid |-> FALSE, error |-> "too_many", remaining |-> 0],
          store |-> store]
  ELSE IF bcrypt_checkpw(provided, store[key].hash)
    THEN [result |-> [valid |-> TRUE, error |-> None, remaining |-> 0],
          store |-> redis_delete(hincrby(store, key), key)]
  ELSE LET remaining == 2 - store[key].attempts
       IN  [result |-> [valid |-> FALSE, error |-> "incorrect",
                        remaining |-> IF remaining > 0 THEN remaining ELSE 0],
            store |-> hincrby(store, key)]

\* verify_otp that keeps the entry after a success
verify_otp_keeps_entry(store, key, provided) ==
  IF key \notin DOMAIN store
    THEN [result |-> [valid |-> FALSE, error |-> "expired", remaining |-> 0],
          store |-> store]
  ELSE IF store[key].attempts >= MAX_OTP_ATTEMPTS
    THEN [result |-> [valid |-> FALSE, error |-> "too_many", remaining |-> 0],
          store |-> store]
  ELSE IF bcrypt_checkpw(provided, store[key].hash)
    THEN [result |-> [valid |-> TRUE, error |-> None, remaining |-> 0],
          store |-> hincrby(store, key)]
  ELSE LET remaining == 2 - store[key].attempts
       IN  [result |-> [valid |-> FALSE, error |-> "incorrect",
                        remaining |-> IF remaining > 0 THEN remaining ELSE 0],
            store |-> hincrby(store, key)]

\* verify_otp: the result dict it returns and the store it leaves
verify_otp(store, key, provided) ==
  IF key \notin DOMAIN store
    THEN [result |-> [valid |-> FALSE, error |-> "expired", remaining |-> 0],
          store |-> store]
  ELSE IF store[key].attempts >= MAX_OTP_ATTEMPTS
    THEN [result |-> [valid |-> FALSE, error |-> "too_many", remaining |-> 0],
          store |-> store]
  ELSE IF bcrypt_checkpw(provided, store[key].hash)
    THEN [result |-> [valid |-> TRUE, error |-> None, remaining |-> 0],
          store |-> redis_delete(hincrby(store, key), key)]
  ELSE LET remaining == 2 - store[key].attempts
       IN  [result |-> [valid |-> FALSE, error |-> "incorrect",
                        remaining |-> IF remaining > 0 THEN remaining ELSE 0],
            store |-> hincrby(store, key)]

\* history bookkeeping of a verification
FailedAfterVerify(key, res) ==
  IF res.valid THEN failed ELSE [failed EXCEPT ![key] = @ + 1]

UsedAfterVerify(key, provided, res) ==
  IF res.valid THEN used \cup {<< key, provided >>} ELSE used

UsedAfterGenerate(key) ==
  { u \in used : u[1] # key }

(* ------------------------------------------------------------------ *)
(* Initial database                                                     *)
(* ------------------------------------------------------------------ *)
\* a riders row; current_loc stands for (current_lat, current_lng)
RiderRow(status, loc) ==
  [status |-> status, current_load |-> 0, max_capacity |-> 5,
   current_loc |-> loc, warehouse_id |-> "w1"]

NoRequest == [op |-> "none"]

IdleSessions == [p \in Procs |-> [pc |-> "idle"]]

InitTables ==
  /\ orders = << >>
  /\ events = << >>
  /\ routes = << >>
  /\ otp = << >>
  /\ clock = 0
  /\ response = NoRequest
  /\ failed = [k \in OtpKeys |-> 0]
  /\ used = {}
  /\ sess = IdleSessions

(* ------------------------------------------------------------------ *)
(* Tables and rows                                                      *)
(* ------------------------------------------------------------------ *)
Put(f, k, v) == [x \in (DOMAIN f) \cup {k} |-> IF x = k THEN v ELSE f[x]]

Abs(x) == IF x < 0 THEN -x ELSE x

\* positions are kilometres along one road; the depot is at its origin
WarehouseLoc == [w \in Warehouses |-> Some(0)]

\* services/maps.py geocode: the coordinates of an address, or None
geocode(address) ==
  CASE address = "addr10" -> Some(10)
    [] address = "addr60" -> Some(60)
    [] OTHER -> Null

\* services/maps.py haversine_distance: straight line times the 1.4 road factor
haversine_distance(a, b) == (Abs(Val(a) - Val(b)) * 14) \div 10

\* services/maps.py get_distance with no routing key configured: the fallback
get_distance(a, b) ==
  [distance_km |-> haversine_distance(a, b), source |-> "haversine"]

\* a new orders row with the column defaults of models/order.py
OrderRow(pickup, drop, key, mode) ==
  [status |-> "ORDER_PLACED", payment |-> "PENDING", payment_mode |-> mode,
   pickup_rider_id |-> None, delivery_rider_id |-> None,
   delivery_route_id |-> Null, warehouse_id |-> None,
   pickup_loc |-> pickup, drop_loc |-> drop,
   pickup_confirmed_at |-> Null, warehouse_received_at |-> Null,
   delivered_at |-> Null, cancelled_at |-> Null,
   idempotency_key |-> key]

OrderEvent(from, to, actor) ==
  [from_status |-> from, to_status |-> to, actor_type |-> actor]

AddEvent(evs, o, e) ==
  Put(evs, o, (IF o \in DOMAIN evs THEN evs[o] ELSE << >>) \o << e >>)

\* every request takes one tick of the clock
Tick ==
  /\ clock < MaxClock
  /\ clock' = clock + 1

Now == Some(clock + 1)

(* ------------------------------------------------------------------ *)
(* routers/orders.py                                                    *)
(* ------------------------------------------------------------------ *)
IdempotencyKeys == {None, "k1"}

\* create_order without the idempotency lookup
create_order_no_lookup(key, registered, pickup_address, drop_address) ==
  /\ Tick
  /\ LET new == Cardinality(DOMAIN orders) + 1
     IN  IF ~registered
           THEN /\ response' = [op |-> "create_order", code |-> 404,
                                registered |-> registered,
                                pickup_address |-> pickup_address,
                                drop_address |-> drop_address]
                /\ UNCHANGED << orders, events >>
         ELSE IF geocode(pickup_address) = Null \/ geocode(drop_address) = Null
           THEN /\ response' = [op |-> "create_order", code |-> 400,
                                registered |-> registered,
                                pickup_address |-> pickup_address,
                                drop_address |-> drop_address]
                /\ UNCHANGED << orders, events >>
         ELSE /\ new \in OrderIds
              /\ orders' = Put(orders, new,
                               OrderRow(geocode(pickup_address),
                                        geocode(drop_address), key, "COD"))
              /\ events' = AddEvent(events, new,
                                    OrderEvent(None, "ORDER_PLACED", "USER"))
              /\ response' = [op |-> "create_order", code |-> 200,
                              order |-> new, created |-> TRUE, key |-> key,
                              registered |-> registered,
                              pickup_address |-> pickup_address,
                              drop_address |-> drop_address]
  /\ UNCHANGED << riders, routes, otp, failed, used, sess >>

\* create_order that validates only after it has added the order
create_order_validates_late(key, registered, pickup_address, drop_address) ==
  /\ Tick
  /\ LET new == Cardinality(DOMAIN orders) + 1
         bad == ~registered \/ geocode(pickup_address) = Null
                  \/ geocode(drop_address) = Null
     IN  /\ new \in OrderIds
         /\ orders' = Put(orders, new,
                          OrderRow(geocode(pickup_address),
                                   geocode(drop_address), key, "COD"))
         /\ events' = AddEvent(events, new,
                               OrderEvent(None, "ORDER_PLACED", "USER"))
         /\ response' = [op |-> "create_order",
                         code |-> IF ~registered THEN 404
                                  ELSE IF bad THEN 400 ELSE 200,
                         order |-> new, created |-> TRUE, key |-> key,
                         registered |-> registered,
                         pickup_address |-> pickup_address,
                         drop_address |-> drop_address]
  /\ UNCHANGED << riders, routes, otp, failed, used, sess >>

create_order(key, registered, pickup_address, drop_address) ==
  /\ Tick
  /\ LET found == { o \in DOMAIN orders :
                      key # None /\ orders[o].idempotency_key = key }
         new == Cardinality(DOMAIN orders) + 1
     IN  IF found # {}
           THEN /\ response' = [op |-> "create_order", code |-> 200,
                                order |-> CHOOSE o \in found : TRUE,
                                created |-> FALSE, key |-> key]
                /\ UNCHANGED << orders, events >>
         ELSE IF ~registered
           THEN /\ response' = [op |-> "create_order", code |-> 404,
                                registered |-> registered,
                                pickup_address |-> pickup_address,
                                drop_address |-> drop_address]
                /\ UNCHANGED << orders, events >>
         ELSE IF geocode(pickup_address) = Null \/ geocode(drop_address) = Null
           THEN /\ response' = [op |-> "create_order", code |-> 400,
                                registered |-> registered,
                                pickup_address |-> pickup_address,
                                drop_address |-> drop_address]
                /\ UNCHANGED << orders, events >>
         ELSE /\ new \in OrderIds
              /\ orders' = Put(orders, new,
                               OrderRow(geocode(pickup_address),
                                        geocode(drop_address), key, "COD"))
              /\ events' = AddEvent(events, new,
                                    OrderEvent(None, "ORDER_PLACED", "USER"))
              /\ response' = [op |-> "create_order", code |-> 200,
                              order |-> new, created |-> TRUE, key |-> key,
                              registered |-> registered,
                              pickup_address |-> pickup_address,
                              drop_address |-> drop_address]
  /\ UNCHANGED << riders, routes, otp, failed, used, sess >>

update_order_status(o, status, actor) ==
  /\ Tick
  /\ IF o \notin DOMAIN orders
       THEN /\ response' = [op |-> "update_order_status", code |-> 404,
                            order |-> o]
            /\ UNCHANGED << orders, events >>
       ELSE LET old_status == orders[o].status
            IN  /\ orders' =
                     [orders EXCEPT
                        ![o].status = status,
                        ![o].delivered_at =
                           IF status = "DELIVERED" THEN Now ELSE @,
                        ![o].cancelled_at =
                           IF status = "CANCELLED" THEN Now ELSE @]
                /\ events' = AddEvent(events, o,
                                      OrderEvent(old_status, status, actor))
                /\ response' = [op |-> "update_order_status", code |-> 200,
                                order |-> o, old_status |-> old_status,
                                new_status |-> status]
  /\ UNCHANGED << riders, routes, otp, failed, used, sess >>

generate_order_otp(o, leg, code) ==
  /\ Tick
  /\ IF o \notin DOMAIN orders
       THEN /\ response' = [op |-> "generate_order_otp", code |-> 404]
            /\ UNCHANGED << otp, failed, used >>
       ELSE /\ otp' = generate_otp(otp, << o, leg >>, code)
            /\ failed' = [failed EXCEPT ![<< o, leg >>] = 0]
            /\ used' = UsedAfterGenerate(<< o, leg >>)
            /\ response' = [op |-> "generate_order_otp", code |-> 200,
                            key |-> << o, leg >>, otp |-> code]
  /\ UNCHANGED << orders, events, riders, routes, sess >>

verify_order_otp(o, leg, provided) ==
  /\ Tick
  /\ failed[<< o, leg >>] < MaxFailed
  /\ LET key == << o, leg >>
         v == verify_otp(otp, key, provided)
         to == IF leg = "pickup" THEN "PICKED_UP" ELSE "DELIVERED"
     IN  /\ otp' = v.store
         /\ failed' = FailedAfterVerify(key, v.result)
         /\ used' = UsedAfterVerify(key, provided, v.result)
         /\ response' = [op |-> "verify_order_otp", code |-> 200, key |-> key,
                         provided |-> provided, result |-> v.result]
         /\ IF v.result.valid /\ o \in DOMAIN orders
              THEN /\ orders' =
                        [orders EXCEPT
                           ![o].status = to,
                           ![o].pickup_confirmed_at =
                              IF leg = "pickup" THEN Now ELSE @,
                           ![o].delivered_at =
                              IF leg = "pickup" THEN @ ELSE Now]
                   \* from_status is read after the status was assigned
                   /\ events' = AddEvent(events, o,
                                         OrderEvent(orders'[o].status, to, "RIDER"))
              ELSE UNCHANGED << orders, events >>
  /\ UNCHANGED << riders, routes, sess >>

(* ------------------------------------------------------------------ *)
(* routers/payments.py                                                  *)
(* ------------------------------------------------------------------ *)
\* the order in which a riders query returns its rows
RiderSeq == << "r1", "r2" >>

PaymentModes == {"COD", "CARD"}

_rider_location(row) ==
  IF row.current_loc # Null THEN row.current_loc
  ELSE IF row.warehouse_id # None THEN WarehouseLoc[row.warehouse_id]
  ELSE Null

SeqToSet(seq) == { seq[i] : i \in 1..Len(seq) }

RECURSIVE FilterSeq(_, _)
\* the elements of seq that are in `keep`, in order
FilterSeq(seq, keep) ==
  IF seq = << >> THEN << >>
  ELSE (IF Head(seq) \in keep THEN << Head(seq) >> ELSE << >>)
         \o FilterSeq(Tail(seq), keep)

\* what get_distance does for one rider of the pool: it answers with a
\* cached or routed distance, falls back to haversine, or raises
Routed(km) == [kind |-> "routed", distance_km |-> km]

Fallback == [kind |-> "fallback"]

Raises == [kind |-> "raises"]

\* services/maps.py get_distance under answer `how`: the dict it returns
get_distance_answer(a, b, how) ==
  IF how.kind = "routed"
    THEN [distance_km |-> how.distance_km, source |-> "geoapify"]
    ELSE get_distance(a, b)

RECURSIVE NearestLoop(_, _, _, _, _, _)
\* the loop over the pool (lines 102-126): a rider whose distance call
\* raises is skipped; the first strictly smallest distance wins
NearestLoop(pool, rt, pickup, travel, best_rider, best_km) ==
  IF pool = << >> THEN [rider |-> best_rider, distance_km |-> best_km]
  ELSE LET rider == Head(pool)
           d_km == get_distance_answer(_rider_location(rt[rider]), pickup,
                                       travel[rider]).distance_km
       IN  IF travel[rider].kind = "raises"
             THEN NearestLoop(Tail(pool), rt, pickup, travel, best_rider, best_km)
           ELSE IF best_rider = None \/ d_km < best_km
             THEN NearestLoop(Tail(pool), rt, pickup, travel, rider, d_km)
             ELSE NearestLoop(Tail(pool), rt, pickup, travel, best_rider, best_km)

\* with no routing key and no cache every distance is the fallback
NoRouting == [r \in Riders |-> Fallback]

\* the loop over the pool: the first rider with the strictly smallest distance
NearestInPool(pool, rt, pickup, best_rider, best_km) ==
  NearestLoop(pool, rt, pickup, NoRouting, best_rider, best_km)

\* SelectPickupRider without the ON_DUTY filter of its query
SelectPickupRider_any_status(rt, pickup) ==
  LET with_gps == { r \in Riders : rt[r].current_loc # Null }
      warehouse_only ==
        { r \in Riders \ with_gps : _rider_location(rt[r]) # Null }
      eligible == IF with_gps # {} THEN with_gps ELSE warehouse_only
      in_zone ==
        { r \in eligible :
            haversine_distance(pickup, _rider_location(rt[r])) <= ZONE_RADIUS_KM }
      pool == IF in_zone # {} THEN in_zone ELSE eligible
  IN  IF eligible = {}
        THEN [rider |-> None, distance_km |-> 0]
        ELSE NearestInPool(FilterSeq(RiderSeq, pool), rt, pickup, None, 0)

\* the selection that never looks at the zone
select_pickup_rider_no_zone(rider_seq, rt, pickup, travel) ==
  LET on_duty == { r \in SeqToSet(rider_seq) : rt[r].status = "ON_DUTY" }
      with_gps == { r \in on_duty : rt[r].current_loc # Null }
      warehouse_only ==
        { r \in on_duty \ with_gps : _rider_location(rt[r]) # Null }
      eligible == IF with_gps # {} THEN with_gps ELSE warehouse_only
  IN  IF on_duty = {} \/ eligible = {}
        THEN [rider |-> None, distance_km |-> 0]
        ELSE NearestLoop(FilterSeq(rider_seq, eligible), rt, pickup, travel, None, 0)

\* the selection of _assign_nearest_pickup_rider (lines 69-129) over the
\* rows rider_seq its query returned, under the distance answers `travel`
select_pickup_rider(rider_seq, rt, pickup, travel) ==
  LET on_duty == { r \in SeqToSet(rider_seq) : rt[r].status = "ON_DUTY" }
      with_gps == { r \in on_duty : rt[r].current_loc # Null }
      warehouse_only ==
        { r \in on_duty \ with_gps : _rider_location(rt[r]) # Null }
      eligible == IF with_gps # {} THEN with_gps ELSE warehouse_only
      in_zone ==
        { r \in eligible :
            haversine_distance(pickup, _rider_location(rt[r])) <= ZONE_RADIUS_KM }
      pool == IF in_zone # {} THEN in_zone ELSE eligible
  IN  IF on_duty = {} \/ eligible = {}
        THEN [rider |-> None, distance_km |-> 0]
        ELSE NearestLoop(FilterSeq(rider_seq, pool), rt, pickup, travel, None, 0)

\* the selection of _assign_nearest_pickup_rider over the riders it read
SelectPickupRider(rt, pickup) ==
  select_pickup_rider(RiderSeq, rt, pickup, NoRouting)

\* _assign_nearest_pickup_rider that leaves the rider's status as it was
_assign_nearest_pickup_rider_keeps_status(o, ot, rt, et) ==
  LET best == SelectPickupRider(rt, ot[o].pickup_loc)
      old_status == ot[o].status
  IN  IF best.rider = None
        THEN [assignment |-> Null, orders |-> ot, riders |-> rt, events |-> et]
        ELSE [assignment |-> Some([rider_id |-> best.rider,
                                   distance_km |-> best.distance_km]),
              orders |-> [ot EXCEPT ![o].pickup_rider_id = best.rider,
                                    ![o].status = "PICKUP_RIDER_ASSIGNED"],
              riders |-> [rt EXCEPT ![best.rider].current_load = @ + 1],
              events |-> AddEvent(et, o,
                                  OrderEvent(old_status, "PICKUP_RIDER_ASSIGNED",
                                             "SYSTEM"))]

\* _assign_nearest_pickup_rider on session rows ot, rt, et: the rows it
\* leaves in the session and the assignment it returns
_assign_nearest_pickup_rider(o, ot, rt, et) ==
  LET best == SelectPickupRider(rt, ot[o].pickup_loc)
      old_status == ot[o].status
  IN  IF best.rider = None
        THEN [assignment |-> Null, orders |-> ot, riders |-> rt, events |-> et]
        ELSE [assignment |-> Some([rider_id |-> best.rider,
                                   distance_km |-> best.distance_km]),
              orders |-> [ot EXCEPT ![o].pickup_rider_id = best.rider,
                                    ![o].status = "PICKUP_RIDER_ASSIGNED"],
              riders |-> [rt EXCEPT ![best.rider].status = "ON_PICKUP",
                                    ![best.rider].current_load = @ + 1],
              events |-> AddEvent(et, o,
                                  OrderEvent(old_status, "PICKUP_RIDER_ASSIGNED",
                                             "SYSTEM"))]

\* db/database.py get_db: what the session holds when the request returns
\* normally is committed
get_db_exit(committed, pending) == pending

confirm_payment(o, mode, pickup_code, drop_code) ==
  /\ Tick
  /\ IF o \notin DOMAIN orders
       THEN /\ response' = [op |-> "confirm_payment", code |-> 404, order |-> o]
            /\ UNCHANGED << orders, events, riders, otp, failed, used >>
     ELSE IF orders[o].payment = "PAID"
       THEN /\ response' = [op |-> "confirm_payment", code |-> 200, order |-> o,
                            status |-> "already_paid"]
            /\ UNCHANGED << orders, events, riders, otp, failed, used >>
     ELSE LET paid == [orders EXCEPT
                         ![o].payment_mode = mode,
                         ![o].payment = IF mode = "COD" THEN "PENDING" ELSE "PAID",
                         ![o].status = "PAYMENT_CONFIRMED"]
              logged == AddEvent(events, o,
                                 OrderEvent("ORDER_PLACED", "PAYMENT_CONFIRMED",
                                            "SYSTEM"))
              \* db.commit(), then the assignment on the same session
              a == _assign_nearest_pickup_rider(o, paid, riders, logged)
              done == get_db_exit([orders |-> paid, riders |-> riders,
                                   events |-> logged],
                                  [orders |-> a.orders, riders |-> a.riders,
                                   events |-> a.events])
          IN  /\ otp' = generate_otp(generate_otp(otp, << o, "pickup" >>, pickup_code),
                                     << o, "drop" >>, drop_code)
              /\ failed' = [failed EXCEPT ![<< o, "pickup" >>] = 0,
                                          ![<< o, "drop" >>] = 0]
              /\ used' = { u \in used : u[1][1] # o }
              /\ orders' = done.orders
              /\ riders' = done.riders
              /\ events' = done.events
              /\ response' = [op |-> "confirm_payment", code |-> 200, order |-> o,
                              status |-> "confirmed",
                              pickup_assignment |-> a.assignment]
  /\ UNCHANGED << routes, sess >>

assign_rider_to_order(o) ==
  /\ Tick
  /\ IF o \notin DOMAIN orders
       THEN /\ response' = [op |-> "assign_rider", code |-> 404, order |-> o]
            /\ UNCHANGED << orders, events, riders >>
     ELSE IF orders[o].status # "PAYMENT_CONFIRMED"
       THEN /\ response' = [op |-> "assign_rider", code |-> 400, order |-> o]
            /\ UNCHANGED << orders, events, riders >>
     ELSE IF orders[o].pickup_rider_id # None
       THEN /\ response' = [op |-> "assign_rider", code |-> 200, order |-> o,
                            status |-> "already_assigned",
                            rider_id |-> orders[o].pickup_rider_id]
            /\ UNCHANGED << orders, events, riders >>
     ELSE LET a == _assign_nearest_pickup_rider(o, orders, riders, events)
              done == get_db_exit([orders |-> orders, riders |-> riders,
                                   events |-> events],
                                  [orders |-> a.orders, riders |-> a.riders,
                                   events |-> a.events])
          IN  IF a.assignment = Null
                THEN /\ response' = [op |-> "assign_rider", code |-> 503,
                                     order |-> o]
                     /\ UNCHANGED << orders, events, riders >>
                ELSE /\ orders' = done.orders
                     /\ riders' = done.riders
                     /\ events' = done.events
                     /\ response' = [op |-> "assign_rider", code |-> 200,
                                     order |-> o, status |-> "assigned",
                                     rider_id |-> Val(a.assignment).rider_id]
  /\ UNCHANGED << routes, otp, failed, used, sess >>

(* ------------------------------------------------------------------ *)
(* routers/riders.py                                                    *)
(* ------------------------------------------------------------------ *)
update_rider_status(r, status) ==
  /\ Tick
  /\ riders' = [riders EXCEPT ![r].status = status]
  /\ response' = [op |-> "update_rider_status", code |-> 200, rider |-> r,
                  old_status |-> riders[r].status, new_status |-> status]
  /\ UNCHANGED << orders, events, routes, otp, failed, used, sess >>

(* ------------------------------------------------------------------ *)
(* routers/webhooks.py                                                  *)
(* ------------------------------------------------------------------ *)
RECURSIVE SeqOfSet(_)
\* the rows of a query over order ids, in id order
SeqOfSet(S) ==
  IF S = {} THEN << >>
  ELSE LET m == CHOOSE x \in S : \A y \in S : x <= y
       IN  << m >> \o SeqOfSet(S \ {m})

Perms(S) ==
  { f \in [1..Cardinality(S) -> S] : \A i, j \in DOMAIN f : f[i] = f[j] => i = j }

\* the parcel query of optimize_routes without its test of the status
AtWarehouse_any_status(ot, w) ==
  { o \in DOMAIN ot : ot[o].warehouse_id = w }

AtWarehouse(ot, w) ==
  { o \in DOMAIN ot : ot[o].status = "AT_WAREHOUSE" /\ ot[o].warehouse_id = w }

RECURSIVE IntakeEach(_, _, _, _, _)
\* the loop of warehouse_intake over the order ids that name an order
IntakeEach(ids, w, ot, et, now) ==
  IF ids = << >> THEN [orders |-> ot, events |-> et]
  ELSE LET o == Head(ids)
       IN  IntakeEach(Tail(ids), w,
                      [ot EXCEPT ![o].status = "AT_WAREHOUSE",
                                 ![o].warehouse_id = w,
                                 ![o].warehouse_received_at = now],
                      AddEvent(et, o,
                               OrderEvent("IN_TRANSIT_TO_WAREHOUSE",
                                          "AT_WAREHOUSE", "RIDER")),
                      now)

warehouse_intake(order_ids, w) ==
  /\ Tick
  /\ LET found == SeqOfSet(order_ids \cap DOMAIN orders)
         done == IntakeEach(found, w, orders, events, Now)
         at_warehouse_count == Cardinality(AtWarehouse(done.orders, w))
     IN  /\ orders' = done.orders
         /\ events' = done.events
         /\ response' = [op |-> "warehouse_intake", code |-> 200,
                         updated |-> found,
                         warehouse_load |-> at_warehouse_count,
                         optimization_triggered |->
                           at_warehouse_count >= BATCH_THRESHOLD]
  /\ UNCHANGED << riders, routes, otp, failed, used, sess >>

RECURSIVE Chunks(_, _)
\* parcels[i:i + n] for i in range(0, len(parcels), n)
Chunks(seq, n) ==
  IF seq = << >> THEN << >>
  ELSE IF Len(seq) <= n THEN << seq >>
  ELSE << SubSeq(seq, 1, n) >> \o Chunks(SubSeq(seq, n + 1, Len(seq)), n)

\* services/route_optimizer.py optimize_route, the stop sequence only: the
\* delivery points in the order the solver visits them (`visit` is that order)
optimize_route_stops(points, visit) ==
  IF Len(points) <= 1 THEN points
  ELSE FilterSeq(visit, SeqToSet(points))

\* `o.drop_lat and o.drop_lng`: a missing coordinate and a coordinate of
\* exactly 0 are both false
Truthy(c) == c # Null /\ Val(c) # 0

RECURSIVE AssignGroup(_, _, _, _)
\* the "Update orders" loop of optimize_routes over one group
AssignGroup(group, route_id, rider, st) ==
  IF group = << >> THEN st
  ELSE LET o == Head(group)
       IN  AssignGroup(Tail(group), route_id, rider,
             [st EXCEPT
                !.orders =
                   [@ EXCEPT ![o].status = "DELIVERY_RIDER_ASSIGNED",
                             ![o].delivery_route_id = Some(route_id),
                             ![o].delivery_rider_id =
                                IF rider # None THEN rider ELSE @],
                !.events =
                   AddEvent(@, o,
                            OrderEvent("AT_WAREHOUSE", "DELIVERY_RIDER_ASSIGNED",
                                       "SYSTEM"))])

RECURSIVE OptimizeGroups(_, _, _, _, _, _)
\* the loop of optimize_routes over the parcel groups; st is the session
OptimizeGroups(groups, group_idx, available_riders, w, visit, st) ==
  IF groups = << >> THEN st
  ELSE LET group == Head(groups)
           delivery_points ==
             FilterSeq(group, { o \in SeqToSet(group) : Truthy(st.orders[o].drop_loc) })
           assigned_rider ==
             IF available_riders # << >>
               THEN available_riders[(group_idx % Len(available_riders)) + 1]
               ELSE None
           route == [rider_id |-> assigned_rider, warehouse_id |-> w,
                     status |-> "PLANNED",
                     optimized_sequence |->
                       optimize_route_stops(delivery_points, visit),
                     total_parcels |-> Len(group)]
           with_route == [st EXCEPT !.routes = Append(@, route),
                                    !.created = @ + 1]
           with_orders ==
             AssignGroup(group, Len(with_route.routes), assigned_rider, with_route)
           with_rider ==
             IF assigned_rider # None
               THEN [with_orders EXCEPT
                       !.riders[assigned_rider].status = "ON_DELIVERY",
                       !.riders[assigned_rider].current_load = Len(group)]
               ELSE with_orders
       IN  IF delivery_points = << >>
             THEN OptimizeGroups(Tail(groups), group_idx + 1, available_riders,
                                 w, visit, st)
             ELSE OptimizeGroups(Tail(groups), group_idx + 1, available_riders,
                                 w, visit, with_rider)

\* optimize_routes over the parcels and riders it read, on session st
RunOptimizer(parcels, available_riders, w, visit, st) ==
  OptimizeGroups(Chunks(parcels, MAX_PARCELS_PER_ROUTE), 0, available_riders,
                 w, visit, st)

AvailableRiders(rt, w) ==
  FilterSeq(RiderSeq,
            { r \in Riders : rt[r].status = "ON_DUTY" /\ rt[r].warehouse_id = w })

optimize_routes(w, visit) ==
  /\ Tick
  /\ LET parcels == SeqOfSet(AtWarehouse(orders, w))
         done == RunOptimizer(parcels, AvailableRiders(riders, w), w, visit,
                              [orders |-> orders, riders |-> riders,
                               events |-> events, routes |-> routes,
                               created |-> 0])
     IN  IF parcels = << >>
           THEN /\ response' = [op |-> "optimize_routes", code |-> 200,
                                warehouse_id |-> w, routes_created |-> 0]
                /\ UNCHANGED << orders, riders, events, routes >>
           ELSE /\ orders' = done.orders
                /\ riders' = done.riders
                /\ events' = done.events
                /\ routes' = done.routes
                /\ response' = [op |-> "optimize_routes", code |-> 200,
                                warehouse_id |-> w,
                                routes_created |-> done.created]
  /\ UNCHANGED << otp, failed, used, sess >>

(* ------------------------------------------------------------------ *)
(* The API, one request at a time                                       *)
(* ------------------------------------------------------------------ *)
\* the statuses a status update asks for in the model
RequestedStatuses ==
  {"PICKUP_EN_ROUTE", "PICKED_UP", "IN_TRANSIT_TO_WAREHOUSE",
   "COMPLETED", "CANCELLED"}

\* the statuses a rider switches between by hand
RequestedRiderStatuses == {"ON_DUTY", "OFF_DUTY"}

\* the addresses of a booking request: resolvable, or one of them unknown
AddressPairs ==
  { << "addr10", "addr60" >>, << "nowhere", "addr60" >>, << "addr10", "nowhere" >> }

\* the code the generator draws in this specification
DrawnCodes == {"111111"}

\* riders as the administration left them: r1 reports GPS, r2 may not
Init ==
  /\ InitTables
  /\ \E s1, s2 \in {"ON_DUTY", "OFF_DUTY"} :
       riders = [r \in Riders |->
                   IF r = "r1" THEN RiderRow(s1, Some(10)) ELSE RiderRow(s2, Null)]

Next ==
  \/ \E key \in IdempotencyKeys, registered \in BOOLEAN, a \in AddressPairs :
       create_order(key, registered, a[1], a[2])
  \/ \E o \in OrderIds, status \in RequestedStatuses :
       update_order_status(o, status, "SYSTEM")
  \/ \E o \in OrderIds, leg \in Legs, code \in DrawnCodes :
       generate_order_otp(o, leg, code)
  \/ \E o \in OrderIds, leg \in Legs, code \in Codes :
       verify_order_otp(o, leg, code)
  \/ \E o \in OrderIds, mode \in PaymentModes, pc \in DrawnCodes, dc \in DrawnCodes :
       confirm_payment(o, mode, pc, dc)
  \/ \E o \in OrderIds : assign_rider_to_order(o)
  \/ \E r \in Riders, status \in RequestedRiderStatuses :
       update_rider_status(r, status)
  \/ \E ids \in (SUBSET OrderIds) \ {{}}, w \in Warehouses :
       warehouse_intake(ids, w)
  \/ \E w \in Warehouses, visit \in Perms(OrderIds) : optimize_routes(w, visit)

Spec == Init /\ [][Next]_vars

(* ------------------------------------------------------------------ *)
(* Concurrent requests: each runs on its own session, reads what is     *)
(* committed, and writes its changed columns when it commits.  No query *)
(* of payments.py or webhooks.py locks a row (no SELECT ... FOR UPDATE, *)
(* no version column), so the steps of two requests interleave at every *)
(* await.                                                               *)
(* ------------------------------------------------------------------ *)
\* an order as the API leaves it once its parcel is on the way to the depot
InTransitRow(rider) ==
  [OrderRow(Some(10), Some(60), None, "COD") EXCEPT
     !.status = "IN_TRANSIT_TO_WAREHOUSE",
     !.pickup_rider_id = rider,
     !.pickup_confirmed_at = Some(0)]

InTransitEvents ==
  << OrderEvent(None, "ORDER_PLACED", "USER"),
     OrderEvent("ORDER_PLACED", "PAYMENT_CONFIRMED", "SYSTEM"),
     OrderEvent("PAYMENT_CONFIRMED", "PICKUP_RIDER_ASSIGNED", "SYSTEM"),
     OrderEvent("PICKUP_RIDER_ASSIGNED", "PICKUP_EN_ROUTE", "SYSTEM"),
     OrderEvent("PICKED_UP", "PICKED_UP", "RIDER"),
     OrderEvent("PICKED_UP", "IN_TRANSIT_TO_WAREHOUSE", "SYSTEM") >>

\* an order whose payment was confirmed while no rider was on duty
ConfirmedRow ==
  [OrderRow(Some(10), Some(60), None, "COD") EXCEPT !.status = "PAYMENT_CONFIRMED"]

ConfirmedEvents ==
  << OrderEvent(None, "ORDER_PLACED", "USER"),
     OrderEvent("ORDER_PLACED", "PAYMENT_CONFIRMED", "SYSTEM") >>

\* assign_rider_to_order, first await: the order is loaded and checked
AssignLoad(p, o) ==
  /\ sess[p].pc = "idle"
  /\ o \in DOMAIN orders
  /\ IF orders[o].status # "PAYMENT_CONFIRMED" \/ orders[o].pickup_rider_id # None
       THEN sess' = [sess EXCEPT ![p] = [pc |-> "done", order |-> o,
                                         assigned |-> None]]
       ELSE sess' = [sess EXCEPT ![p] = [pc |-> "loaded", order |-> o,
                                         row |-> orders[o]]]
  /\ response' = [op |-> "assign_rider.load", proc |-> p]
  /\ UNCHANGED << orders, events, riders, routes, otp, clock, failed, used >>

\* _assign_nearest_pickup_rider: the ON_DUTY riders are read and the nearest
\* is chosen; the changes stay in the session
AssignSelect(p) ==
  /\ sess[p].pc = "loaded"
  /\ LET o == sess[p].order
         a == _assign_nearest_pickup_rider(o, Put(orders, o, sess[p].row),
                                           riders, << >>)
     IN  IF a.assignment = Null
           THEN sess' = [sess EXCEPT ![p] = [pc |-> "done", order |-> o,
                                             assigned |-> None]]
           ELSE LET r == Val(a.assignment).rider_id
                IN  sess' = [sess EXCEPT ![p] =
                               [pc |-> "pending", order |-> o, rider |-> r,
                                order_row |-> a.orders[o],
                                rider_row |-> a.riders[r],
                                event |-> a.events[o][1]]]
  /\ response' = [op |-> "assign_rider.select", proc |-> p]
  /\ UNCHANGED << orders, events, riders, routes, otp, clock, failed, used >>

\* the request returns and its session is committed: the changed columns
\* of the order and of the rider are written, and the event is inserted
AssignCommit(p) ==
  /\ sess[p].pc = "pending"
  /\ LET o == sess[p].order
         r == sess[p].rider
         done == get_db_exit(
                   [orders |-> orders, riders |-> riders, events |-> events],
                   [orders |-> [orders EXCEPT
                                  ![o].pickup_rider_id = sess[p].order_row.pickup_rider_id,
                                  ![o].status = sess[p].order_row.status],
                    riders |-> [riders EXCEPT
                                  ![r].status = sess[p].rider_row.status,
                                  ![r].current_load = sess[p].rider_row.current_load],
                    events |-> AddEvent(events, o, sess[p].event)])
     IN  /\ orders' = done.orders
         /\ riders' = done.riders
         /\ events' = done.events
         /\ sess' = [sess EXCEPT ![p] = [pc |-> "done", order |-> o,
                                         assigned |-> r]]
  /\ response' = [op |-> "assign_rider.commit", proc |-> p]
  /\ UNCHANGED << routes, otp, clock, failed, used >>

InitAssign ==
  /\ orders = [o \in OrderIds |-> ConfirmedRow]
  /\ events = [o \in OrderIds |-> ConfirmedEvents]
  /\ routes = << >>
  /\ otp = << >>
  /\ clock = 0
  /\ response = NoRequest
  /\ failed = [k \in OtpKeys |-> 0]
  /\ used = {}
  /\ sess = IdleSessions
  /\ \E s1, s2 \in {"ON_DUTY", "OFF_DUTY"}, l2 \in {Null, Some(50)} :
       riders = [r \in Riders |->
                   IF r = "r1" THEN RiderRow(s1, Some(10)) ELSE RiderRow(s2, l2)]

NextAssign ==
  \/ \E p \in Procs, o \in OrderIds : AssignLoad(p, o)
  \/ \E p \in Procs : AssignSelect(p)
  \/ \E p \in Procs : AssignCommit(p)

SpecAssign == InitAssign /\ [][NextAssign]_vars

\* optimize_routes up to its last query: the pending parcels of the depot
\* and its ON_DUTY riders are read
OptimizeRead(p, w) ==
  /\ sess[p].pc = "idle"
  /\ LET parcels == SeqOfSet(AtWarehouse(orders, w))
     IN  IF parcels = << >>
           THEN sess' = [sess EXCEPT ![p] = [pc |-> "done", created |-> 0]]
           ELSE sess' = [sess EXCEPT ![p] =
                           [pc |-> "read", warehouse |-> w, parcels |-> parcels,
                            available_riders |-> AvailableRiders(riders, w)]]
  /\ response' = [op |-> "optimize_routes.read", proc |-> p]
  /\ UNCHANGED << orders, events, riders, routes, otp, clock, failed, used >>

\* optimize_routes from the grouping to db.commit(): routes are inserted and
\* the orders and riders it read are updated by primary key
OptimizeCommit(p, visit) ==
  /\ sess[p].pc = "read"
  /\ LET done == RunOptimizer(sess[p].parcels, sess[p].available_riders,
                              sess[p].warehouse, visit,
                              [orders |-> orders, riders |-> riders,
                               events |-> events, routes |-> routes,
                               created |-> 0])
     IN  /\ orders' = done.orders
         /\ riders' = done.riders
         /\ events' = done.events
         /\ routes' = done.routes
         /\ sess' = [sess EXCEPT ![p] = [pc |-> "done", created |-> done.created]]
  /\ response' = [op |-> "optimize_routes.commit", proc |-> p]
  /\ UNCHANGED << otp, clock, failed, used >>

InitOptimize ==
  /\ orders = [o \in OrderIds |-> InTransitRow(RiderSeq[((o - 1) % Len(RiderSeq)) + 1])]
  /\ events = [o \in OrderIds |-> InTransitEvents]
  /\ routes = << >>
  /\ otp = << >>
  /\ clock = 0
  /\ response = NoRequest
  /\ failed = [k \in OtpKeys |-> 0]
  /\ used = {}
  /\ sess = IdleSessions
  /\ \E s1, s2 \in {"ON_DUTY", "ON_PICKUP"} :
       riders = [r \in Riders |->
                   [RiderRow(IF r = "r1" THEN s1 ELSE s2, Some(10)) EXCEPT
                      !.current_load = 1]]

NextOptimize ==
  \/ \E ids \in (SUBSET OrderIds) \ {{}}, w \in Warehouses :
       warehouse_intake(ids, w)
  \/ \E p \in Procs, w \in Warehouses : OptimizeRead(p, w)
  \/ \E p \in Procs, visit \in Perms(OrderIds) : OptimizeCommit(p, visit)

SpecOptimize == InitOptimize /\ [][NextOptimize]_vars

(* ------------------------------------------------------------------ *)
(* Dispatch of placed orders: payment, pickup assignment, intake and    *)
(* route optimization, over riders of several capacities.               *)
(* ------------------------------------------------------------------ *)
\* max_capacity as an admin sets it in create_rider
Capacities == {1, 5}

PlacedRow == OrderRow(Some(10), Some(60), None, "COD")

PlacedEvents == << OrderEvent(None, "ORDER_PLACED", "USER") >>

InitDispatch ==
  /\ orders = [o \in OrderIds |-> PlacedRow]
  /\ events = [o \in OrderIds |-> PlacedEvents]
  /\ routes = << >>
  /\ otp = << >>
  /\ clock = 0
  /\ response = NoRequest
  /\ failed = [k \in OtpKeys |-> 0]
  /\ used = {}
  /\ sess = IdleSessions
  /\ \E s1, s2 \in {"ON_DUTY", "OFF_DUTY"}, c1 \in Capacities,
        w2 \in Warehouses \cup {None} :
       riders = [r \in Riders |->
                   IF r = "r1"
                     THEN [RiderRow(s1, Some(10)) EXCEPT !.max_capacity = c1]
                     ELSE [RiderRow(s2, Null) EXCEPT !.warehouse_id = w2]]

NextDispatch ==
  \/ \E o \in OrderIds, mode \in PaymentModes, c \in DrawnCodes :
       confirm_payment(o, mode, c, c)
  \/ \E o \in OrderIds : assign_rider_to_order(o)
  \/ \E r \in Riders, status \in RequestedRiderStatuses :
       update_rider_status(r, status)
  \/ \E ids \in (SUBSET OrderIds) \ {{}}, w \in Warehouses :
       warehouse_intake(ids, w)
  \/ \E w \in Warehouses, visit \in Perms(OrderIds) : optimize_routes(w, visit)

SpecDispatch == InitDispatch /\ [][NextDispatch]_vars

(* ------------------------------------------------------------------ *)
(* optimize_routes over a full depot: up to MaxParcels parcels wait at  *)
(* the depot, brought in by r1, whose load counts them; a parcel may    *)
(* have been booked with a location pin on the zero meridian.           *)
(* ------------------------------------------------------------------ *)
MaxParcels == 11

ParcelIds == 1..MaxParcels

\* the parcels that may carry a zero coordinate
PinnedParcels == {1, 6}

ParcelRow(drop) ==
  [InTransitRow("r1") EXCEPT !.status = "AT_WAREHOUSE", !.warehouse_id = "w1",
                             !.warehouse_received_at = Some(0),
                             !.drop_loc = drop]

ParcelEvents ==
  InTransitEvents \o
    << OrderEvent("IN_TRANSIT_TO_WAREHOUSE", "AT_WAREHOUSE", "RIDER") >>

\* the orders in which the solver may visit the stops
BatchVisits ==
  { SeqOfSet(ParcelIds), [i \in ParcelIds |-> MaxParcels + 1 - i] }

InitBatch ==
  /\ routes = << >>
  /\ otp = << >>
  /\ clock = 0
  /\ response = NoRequest
  /\ failed = [k \in OtpKeys |-> 0]
  /\ used = {}
  /\ sess = IdleSessions
  /\ \E n \in ParcelIds, zero \in SUBSET PinnedParcels,
        s1, s2 \in {"ON_DUTY", "OFF_DUTY"}, w2 \in Warehouses \cup {None} :
       /\ orders = [o \in 1..n |->
                      ParcelRow(IF o \in zero THEN Some(0) ELSE Some(10 * o))]
       /\ events = [o \in 1..n |-> ParcelEvents]
       /\ riders = [r \in Riders |->
                      IF r = "r1"
                        THEN [RiderRow(s1, Some(10)) EXCEPT !.current_load = n]
                        ELSE [RiderRow(s2, Null) EXCEPT !.warehouse_id = w2]]

NextBatch ==
  \/ \E w \in Warehouses, visit \in BatchVisits : optimize_routes(w, visit)
  \/ \E r \in Riders, status \in RequestedRiderStatuses :
       update_rider_status(r, status)

SpecBatch == InitBatch /\ [][NextBatch]_vars

(* ------------------------------------------------------------------ *)
(* services/route_optimizer.py                                          *)
(* ------------------------------------------------------------------ *)
MaxStops == 3

\* where a delivery point can lie on the road, in km from the depot
RoutePositions == {-15, 10, 40}

\* round(metres / 1000, 2), in hundredths of a kilometre
RoundKm(metres) == (metres + 5) \div 10

Max(a, b) == IF a >= b THEN a ELSE b

\* _build_distance_matrix_from_points without an API matrix: metres
_build_distance_matrix_from_points(points) ==
  [i \in 1..Len(points) |->
     [j \in 1..Len(points) |->
        IF i = j THEN 0
        ELSE haversine_distance(points[i], points[j]) * 1000]]

RECURSIVE PathCost(_, _)
\* the sum of the arcs of a node sequence (nodes numbered from 0 as in the code)
PathCost(matrix, nodes) ==
  IF Len(nodes) <= 1 THEN 0
  ELSE matrix[nodes[1] + 1][nodes[2] + 1] + PathCost(matrix, Tail(nodes))

\* depot, 1, 2, ..., N, depot
NaiveSequence(n_points) ==
  [i \in 1..(n_points + 2) |-> IF i = n_points + 2 THEN 0 ELSE i - 1]

\* the tours the routing solver may hand back for n_points stops: none
\* (no solution within the time limit) or the stops in some order
SolverOutcomes(n_points) ==
  {Null} \cup { Some(visit) : visit \in Perms(1..n_points) }

\* optimize_route whose fallback gives up the stops when the solver fails
optimize_route_drops_stops(depot, delivery_points, solution) ==
  IF delivery_points = << >>
    THEN [sequence |-> << >>, stop_details |-> << >>,
          total_distance_km |-> 0, savings_vs_naive_km |-> 0]
  ELSE IF Len(delivery_points) = 1
    THEN [sequence |-> << 0, 1, 0 >>, stop_details |-> delivery_points,
          total_distance_km |->
            haversine_distance(depot, delivery_points[1]) * 2 * 100,
          savings_vs_naive_km |-> 0]
  ELSE IF solution = Null
    THEN [sequence |-> << 0, 0 >>, stop_details |-> << >>,
          total_distance_km |-> 0, savings_vs_naive_km |-> 0]
  ELSE LET all_points == << depot >> \o delivery_points
           dist_matrix == _build_distance_matrix_from_points(all_points)
           sequence == << 0 >> \o Val(solution) \o << 0 >>
           total_km == RoundKm(PathCost(dist_matrix, sequence))
           naive_km == RoundKm(PathCost(dist_matrix,
                                        NaiveSequence(Len(delivery_points))))
       IN  [sequence |-> sequence,
            stop_details |->
              [i \in 1..Len(delivery_points) |-> delivery_points[Val(solution)[i]]],
            total_distance_km |-> total_km,
            savings_vs_naive_km |-> Max(naive_km - total_km, 0)]

\* optimize_route(depot, delivery_points), `solution` being what
\* routing.SolveWithParameters returned; distances in hundredths of a km
optimize_route(depot, delivery_points, solution) ==
  IF delivery_points = << >>
    THEN [sequence |-> << >>, stop_details |-> << >>,
          total_distance_km |-> 0, savings_vs_naive_km |-> 0]
  ELSE IF Len(delivery_points) = 1
    THEN [sequence |-> << 0, 1, 0 >>, stop_details |-> delivery_points,
          total_distance_km |->
            haversine_distance(depot, delivery_points[1]) * 2 * 100,
          savings_vs_naive_km |-> 0]
  ELSE LET all_points == << depot >> \o delivery_points
           dist_matrix == _build_distance_matrix_from_points(all_points)
           naive_distance ==
             PathCost(dist_matrix, NaiveSequence(Len(delivery_points)))
       IN  IF solution = Null
             THEN [sequence |-> NaiveSequence(Len(delivery_points)),
                   stop_details |-> delivery_points,
                   total_distance_km |-> RoundKm(naive_distance),
                   savings_vs_naive_km |-> 0]
             ELSE LET sequence == << 0 >> \o Val(solution) \o << 0 >>
                      optimized_distance == PathCost(dist_matrix, sequence)
                      total_km == RoundKm(optimized_distance)
                      naive_km == RoundKm(naive_distance)
                      savings == naive_km - total_km
                  IN  [sequence |-> sequence,
                       stop_details |->
                         [i \in 1..Len(delivery_points) |->
                            delivery_points[Val(solution)[i]]],
                       total_distance_km |-> total_km,
                       savings_vs_naive_km |-> Max(savings, 0)]

\* sequences of `n` delivery points
PointLists(n) == [1..n -> { Some(x) : x \in RoutePositions }]

\* the call is made with the arguments and the solver outcome drawn at
\* the start
OptimizeRouteCall ==
  /\ response.op = "optimize_route.call"
  /\ response' =
       [response EXCEPT
          !.op = "optimize_route",
          !.result = optimize_route(response.depot, response.delivery_points,
                                    response.solution)]
  /\ UNCHANGED << orders, events, riders, routes, otp, clock, failed, used, sess >>

InitRoute ==
  /\ orders = << >>
  /\ events = << >>
  /\ routes = << >>
  /\ otp = << >>
  /\ clock = 0
  /\ failed = [k \in OtpKeys |-> 0]
  /\ used = {}
  /\ sess = IdleSessions
  /\ riders = [r \in Riders |-> RiderRow("OFF_DUTY", Null)]
  /\ \E n \in 0..MaxStops :
       \E delivery_points \in PointLists(n), solution \in SolverOutcomes(n) :
         response = [op |-> "optimize_route.call", depot |-> Some(0),
                     delivery_points |-> delivery_points,
                     solution |-> solution, result |-> Null]

NextRoute == OptimizeRouteCall

SpecRoute == InitRoute /\ [][NextRoute]_vars

(* ------------------------------------------------------------------ *)
(* services/pricing.py                                                  *)
(* Amounts are integers in units of 1/100000 rupee, so that every       *)
(* product of the multipliers below is exact; multipliers are in        *)
(* tenths, percentages in hundredths (a surged cost is a multiple of    *)
(* 100 units, so a percentage of it is taken after dividing by 100).    *)
(* ------------------------------------------------------------------ *)
RATE_PER_KM == 10

MINIMUM_CHARGE == 35

BATCH_DISCOUNT_PCT == 15

\* units per rupee
Rupee == 100000

VEHICLE_MULTIPLIER == [BIKE |-> 10, AUTO |-> 13, VAN |-> 16]

TIME_FACTOR == [NEXT_DAY |-> 9, STANDARD |-> 10, SAME_DAY |-> 13, EXPRESS |-> 18]

WEIGHT_TO_VEHICLE == [LIGHT |-> "BIKE", MEDIUM |-> "AUTO", HEAVY |-> "VAN"]

SUBSCRIPTION_PLANS ==
  [STARTER |-> [free_deliveries |-> 5, discount_pct |-> 0],
   BUSINESS |-> [free_deliveries |-> 25, discount_pct |-> 5],
   ENTERPRISE |-> [free_deliveries |-> 999, discount_pct |-> 10]]

ADDON_PRICES ==
  [PRIORITY_HANDLING |-> 30, PHOTO_PROOF |-> 10, INSURANCE_5K |-> 25,
   INSURANCE_25K |-> 75, SCHEDULED_SLOT |-> 20, RETURN_SERVICE |-> 15]

\* round(amount, 2): the amount in paise
Round2(amount) == (amount + 500) \div 1000

determine_vehicle(weight_tier) ==
  IF weight_tier \in DOMAIN WEIGHT_TO_VEHICLE
    THEN WEIGHT_TO_VEHICLE[weight_tier] ELSE "BIKE"

RECURSIVE AddonsCost(_)
\* the loop over the requested add-ons; an unknown add-on costs nothing
AddonsCost(addons) ==
  IF addons = << >> THEN 0
  ELSE (IF Head(addons) \in DOMAIN ADDON_PRICES
          THEN ADDON_PRICES[Head(addons)] * Rupee ELSE 0)
       + AddonsCost(Tail(addons))

\* the "Subscription discount" block of calculate_price
SubscriptionDiscount(surged_cost, subscription_plan, free_deliveries_remaining) ==
  IF subscription_plan # None /\ free_deliveries_remaining > 0
    THEN surged_cost
  ELSE IF subscription_plan # None
    THEN LET disc_pct ==
               IF subscription_plan \in DOMAIN SUBSCRIPTION_PLANS
                 THEN SUBSCRIPTION_PLANS[subscription_plan].discount_pct ELSE 0
         IN  (surged_cost \div 100) * disc_pct
  ELSE 0

\* calculate_price without the minimum-charge floor
calculate_price_no_floor(distance_km, weight_tier, time_factor_key, surge_multiplier, addons, is_batch_eligible, subscription_plan, free_deliveries_remaining) ==
  LET vehicle_type == determine_vehicle(weight_tier)
      time_fact == IF time_factor_key \in DOMAIN TIME_FACTOR
                     THEN TIME_FACTOR[time_factor_key] ELSE 10
      base_cost == distance_km * RATE_PER_KM * VEHICLE_MULTIPLIER[vehicle_type]
                     * time_fact * 1000
      surged_cost == (base_cost * surge_multiplier) \div 10
      batch_discount ==
        IF is_batch_eligible THEN (surged_cost \div 100) * BATCH_DISCOUNT_PCT ELSE 0
      subscription_discount ==
        SubscriptionDiscount(surged_cost, subscription_plan,
                             free_deliveries_remaining)
      total == surged_cost + AddonsCost(addons) - batch_discount
                 - subscription_discount
  IN  [vehicle_type |-> vehicle_type, base_cost |-> Round2(base_cost),
       addons_cost |-> Round2(AddonsCost(addons)),
       batch_discount |-> Round2(batch_discount),
       subscription_discount |-> Round2(subscription_discount),
       total_cost |-> Round2(Max(total, 0))]

calculate_price(distance_km, weight_tier, time_factor_key, surge_multiplier, addons, is_batch_eligible, subscription_plan, free_deliveries_remaining) ==
  LET vehicle_type == determine_vehicle(weight_tier)
      vehicle_mult == VEHICLE_MULTIPLIER[vehicle_type]
      time_fact == IF time_factor_key \in DOMAIN TIME_FACTOR
                     THEN TIME_FACTOR[time_factor_key] ELSE 10
      base_cost == distance_km * RATE_PER_KM * vehicle_mult * time_fact * 1000
      surged_cost == (base_cost * surge_multiplier) \div 10
      addons_cost == AddonsCost(addons)
      batch_discount ==
        IF is_batch_eligible THEN (surged_cost \div 100) * BATCH_DISCOUNT_PCT ELSE 0
      subscription_discount ==
        SubscriptionDiscount(surged_cost, subscription_plan,
                             free_deliveries_remaining)
      total == Max(surged_cost + addons_cost - batch_discount
                     - subscription_discount,
                   MINIMUM_CHARGE * Rupee)
  IN  [vehicle_type |-> vehicle_type, base_cost |-> Round2(base_cost),
       addons_cost |-> Round2(addons_cost),
       batch_discount |-> Round2(batch_discount),
       subscription_discount |-> Round2(subscription_discount),
       total_cost |-> Round2(total)]

\* inputs of the pricing calls
Distances == {1, 10, 40}

WeightTiers == {"LIGHT", "MEDIUM", "HEAVY", "SMALL", "LARGE", "BULKY"}

TimeFactorKeys == {"NEXT_DAY", "STANDARD", "EXPRESS"}

SurgeMultipliers == {10, 12, 16}

AddonLists == { << >>, << "PHOTO_PROOF" >>, << "PRIORITY_HANDLING", "PHOTO_PROOF" >>,
                << "INSURANCE_25K" >> }

Plans == {None, "STARTER", "BUSINESS", "ENTERPRISE"}

FreeDeliveries == {0, 3}

\* the call is made with the arguments drawn at the start
CalculatePriceCall ==
  /\ response.op = "calculate_price.call"
  /\ response' =
       [response EXCEPT
          !.op = "calculate_price",
          !.price = calculate_price(response.distance_km, response.weight_tier,
                                    response.time_factor_key,
                                    response.surge_multiplier, response.addons,
                                    response.is_batch_eligible,
                                    response.subscription_plan,
                                    response.free_deliveries_remaining)]
  /\ UNCHANGED << orders, events, riders, routes, otp, clock, failed, used, sess >>

InitPrice ==
  /\ orders = << >>
  /\ events = << >>
  /\ routes = << >>
  /\ otp = << >>
  /\ clock = 0
  /\ failed = [k \in OtpKeys |-> 0]
  /\ used = {}
  /\ sess = IdleSessions
  /\ riders = [r \in Riders |-> RiderRow("OFF_DUTY", Null)]
  /\ \E distance_km \in Distances, weight_tier \in WeightTiers,
        time_factor_key \in TimeFactorKeys, surge_multiplier \in SurgeMultipliers,
        addons \in AddonLists, is_batch_eligible \in BOOLEAN,
        subscription_plan \in Plans, free_deliveries_remaining \in FreeDeliveries :
       response =
         [op |-> "calculate_price.call", distance_km |-> distance_km,
          weight_tier |-> weight_tier, time_factor_key |-> time_factor_key,
          surge_multiplier |-> surge_multiplier, addons |-> addons,
          is_batch_eligible |-> is_batch_eligible,
          subscription_plan |-> subscription_plan,
          free_deliveries_remaining |-> free_deliveries_remaining,
          price |-> Null]

NextPrice == CalculatePriceCall

SpecPrice == InitPrice /\ [][NextPrice]_vars

(* ------------------------------------------------------------------ *)
(* services/pricing.py calculate_surge.  The ratio active_orders /      *)
(* available_riders is compared with a threshold t as                   *)
(* active_orders < t * available_riders (available_riders > 0 there).   *)
(* ------------------------------------------------------------------ *)
\* (threshold, multiplier in tenths)
SURGE_BANDS == << << 2, 10 >>, << 4, 12 >>, << 6, 14 >>, << 999, 16 >> >>

MaxActiveOrders == 16

MaxAvailableRiders == 4

RECURSIVE SurgeBandLoop(_, _, _)
\* the loop over SURGE_BANDS and the return after it
SurgeBandLoop(bands, active_orders, available_riders) ==
  IF bands = << >>
    THEN [multiplier |-> 16, reason |-> "Extreme demand"]
  ELSE IF active_orders < Head(bands)[1] * available_riders
    THEN (IF Head(bands)[2] > 10
            THEN [multiplier |-> Head(bands)[2], reason |-> "High demand"]
            ELSE [multiplier |-> 10, reason |-> None])
  ELSE SurgeBandLoop(Tail(bands), active_orders, available_riders)

\* calculate_surge whose bands include their upper threshold
calculate_surge_inclusive(active_orders, available_riders) ==
  IF available_riders <= 0
    THEN [multiplier |-> 16, reason |-> "No riders available"]
  ELSE IF active_orders <= 2 * available_riders
    THEN [multiplier |-> 10, reason |-> None]
  ELSE IF active_orders <= 4 * available_riders
    THEN [multiplier |-> 12, reason |-> "High demand"]
  ELSE IF active_orders <= 6 * available_riders
    THEN [multiplier |-> 14, reason |-> "High demand"]
  ELSE [multiplier |-> 16, reason |-> "High demand"]

calculate_surge(active_orders, available_riders) ==
  IF available_riders <= 0
    THEN [multiplier |-> 16, reason |-> "No riders available"]
  ELSE SurgeBandLoop(SURGE_BANDS, active_orders, available_riders)

\* the arguments of the calls: everyday loads and the ratios around 999
ActiveOrderCounts == (0..MaxActiveOrders) \cup {998, 999}

AvailableRiderCounts == (-1)..MaxAvailableRiders

CalculateSurgeCall ==
  /\ response.op = "calculate_surge.call"
  /\ response' =
       [response EXCEPT
          !.op = "calculate_surge",
          !.surge = calculate_surge(response.active_orders,
                                    response.available_riders)]
  /\ UNCHANGED << orders, events, riders, routes, otp, clock, failed, used, sess >>

InitSurge ==
  /\ orders = << >>
  /\ events = << >>
  /\ routes = << >>
  /\ otp = << >>
  /\ clock = 0
  /\ failed = [k \in OtpKeys |-> 0]
  /\ used = {}
  /\ sess = IdleSessions
  /\ riders = [r \in Riders |-> RiderRow("OFF_DUTY", Null)]
  /\ \E active_orders \in ActiveOrderCounts, available_riders \in AvailableRiderCounts :
       response = [op |-> "calculate_surge.call", active_orders |-> active_orders,
                   available_riders |-> available_riders,
                   surge |-> [multiplier |-> 0, reason |-> None]]

NextSurge == CalculateSurgeCall

SpecSurge == InitSurge /\ [][NextSurge]_vars

(* ------------------------------------------------------------------ *)
(* services/pickup_scheduler.py                                         *)
(* A datetime is a number of minutes from 00:00 of today; a time of day *)
(* is a number of minutes from 00:00.                                   *)
(* ------------------------------------------------------------------ *)
BUSINESS_HOURS_START == 8

BUSINESS_HOURS_END == 20

CUTOFF_BUFFER_MIN == 90

\* timedelta(minutes=30), the booking buffer
BOOKING_BUFFER_MIN == 30

\* max_pickups_per_hour of a schedule that does not state it
DEFAULT_PICKUPS_PER_HOUR == 3

MinutesPerDay == 1440

MaxDaysAhead == 1

\* time(hour, minute)
TimeOf(hour, minute) == hour * 60 + minute

\* datetime.combine(today + day_offset, t)
_combine_dt(day_offset, t) == day_offset * MinutesPerDay + t

\* dt.time() and dt.date()
TimeOfDay(dt) == dt % MinutesPerDay

DateOf(dt) == dt \div MinutesPerDay

RECURSIVE _calculate_slot_capacity(_, _)
_calculate_slot_capacity(hour, rider_schedules) ==
  IF rider_schedules = << >> THEN 0
  ELSE LET rider == Head(rider_schedules)
           slot_time == TimeOf(hour, 0)
       IN  (IF rider.shift_start <= slot_time /\ slot_time < rider.shift_end
              THEN (IF "max_pickups_per_hour" \in DOMAIN rider
                      THEN rider.max_pickups_per_hour
                      ELSE DEFAULT_PICKUPS_PER_HOUR)
              ELSE 0)
           + _calculate_slot_capacity(hour, Tail(rider_schedules))

\* the (day_offset, hour) pairs in the order of the two loops
SlotLoop(days_ahead) ==
  LET per_day == BUSINESS_HOURS_END - BUSINESS_HOURS_START
  IN  [i \in 1..((days_ahead + 1) * per_day) |->
         [day_offset |-> (i - 1) \div per_day,
          hour |-> BUSINESS_HOURS_START + ((i - 1) % per_day)]]

\* the cutoff as get_available_slots computes it
CutoffTime ==
  TimeOf(BUSINESS_HOURS_END - (CUTOFF_BUFFER_MIN \div 60), CUTOFF_BUFFER_MIN % 60)

\* the TimeSlot of one pass of the inner loop
SlotOf(e, rider_schedules, scheduled_pickups) ==
  LET capacity == _calculate_slot_capacity(e.hour, rider_schedules)
      booked == IF e.hour \in DOMAIN scheduled_pickups
                  THEN scheduled_pickups[e.hour] ELSE 0
  IN  [start |-> _combine_dt(e.day_offset, TimeOf(e.hour, 0)),
       end |-> IF e.hour + 1 < 24
                 THEN _combine_dt(e.day_offset, TimeOf(e.hour + 1, 0))
                 ELSE _combine_dt(e.day_offset + 1, TimeOf(0, 0)),
       available_capacity |-> Max(capacity - booked, 0)]

\* get_available_slots that also returns the windows with nothing left
get_available_slots_keeps_full(now, rider_schedules, scheduled_pickups, days_ahead) ==
  LET Kept(e) ==
        LET slot == SlotOf(e, rider_schedules, scheduled_pickups)
        IN  /\ ~(slot.start < now)
            /\ ~(DateOf(slot.start) = DateOf(now) /\ TimeOfDay(now) >= CutoffTime)
            /\ ~(slot.start < now + BOOKING_BUFFER_MIN)
      passes == SelectSeq(SlotLoop(days_ahead), Kept)
  IN  [i \in 1..Len(passes) |->
         SlotOf(passes[i], rider_schedules, scheduled_pickups)]

\* get_available_slots whose cutoff test forgets `current_date == today`
get_available_slots_cutoff_all_days(now, rider_schedules, scheduled_pickups, days_ahead) ==
  LET Kept(e) ==
        LET slot == SlotOf(e, rider_schedules, scheduled_pickups)
        IN  /\ ~(slot.start < now)
            /\ ~(TimeOfDay(now) >= CutoffTime)
            /\ ~(slot.start < now + BOOKING_BUFFER_MIN)
            /\ slot.available_capacity > 0
      passes == SelectSeq(SlotLoop(days_ahead), Kept)
  IN  [i \in 1..Len(passes) |->
         SlotOf(passes[i], rider_schedules, scheduled_pickups)]

get_available_slots(now, rider_schedules, scheduled_pickups, days_ahead) ==
  LET Kept(e) ==
        LET slot == SlotOf(e, rider_schedules, scheduled_pickups)
        IN  /\ ~(slot.start < now)
            /\ ~(DateOf(slot.start) = DateOf(now) /\ TimeOfDay(now) >= CutoffTime)
            /\ ~(slot.start < now + BOOKING_BUFFER_MIN)
            /\ slot.available_capacity > 0
      passes == SelectSeq(SlotLoop(days_ahead), Kept)
  IN  [i \in 1..Len(passes) |->
         SlotOf(passes[i], rider_schedules, scheduled_pickups)]

\* inputs of the scheduler calls
NowTimes == {585, 600, 645, 1020, 1110, 1111, 1170, 1260}

Shift(shift_start, shift_end, per_hour) ==
  [shift_start |-> TimeOf(shift_start, 0), shift_end |-> TimeOf(shift_end, 0),
   max_pickups_per_hour |-> per_hour]

RiderSchedules ==
  { << >>,
    << Shift(8, 20, 3) >>,
    << Shift(8, 20, 3), Shift(8, 20, 3), Shift(8, 20, 3) >>,
    << Shift(8, 14, 2),
       [shift_start |-> TimeOf(12, 0), shift_end |-> TimeOf(20, 0)] >> }

ScheduledPickups ==
  { << >>, (11 :> 9), (11 :> 3) @@ (15 :> 1), (9 :> 2) @@ (19 :> 5) }

GetSlotsCall ==
  /\ response.op = "get_available_slots.call"
  /\ response' =
       [response EXCEPT
          !.op = "get_available_slots",
          !.slots = get_available_slots(response.now, response.rider_schedules,
                                        response.scheduled_pickups,
                                        response.days_ahead)]
  /\ UNCHANGED << orders, events, riders, routes, otp, clock, failed, used, sess >>

InitSlots ==
  /\ orders = << >>
  /\ events = << >>
  /\ routes = << >>
  /\ otp = << >>
  /\ clock = 0
  /\ failed = [k \in OtpKeys |-> 0]
  /\ used = {}
  /\ sess = IdleSessions
  /\ riders = [r \in Riders |-> RiderRow("OFF_DUTY", Null)]
  /\ \E now \in NowTimes, rider_schedules \in RiderSchedules,
        scheduled_pickups \in ScheduledPickups, days_ahead \in 0..MaxDaysAhead :
       response = [op |-> "get_available_slots.call", now |-> now,
                   rider_schedules |-> rider_schedules,
                   scheduled_pickups |-> scheduled_pickups,
                   days_ahead |-> days_ahead, slots |-> << >>]

NextSlots == GetSlotsCall

SpecSlots == InitSlots /\ [][NextSlots]_vars

(* ------------------------------------------------------------------ *)
(* services/pickup_scheduler.py determine_time_factor                   *)
(* ------------------------------------------------------------------ *)
\* the 4 of `hours_until <= 4`
SAME_DAY_HOURS == 4

\* determine_time_factor that takes exactly 4 hours as STANDARD
determine_time_factor_strict(is_express, pickup_slot, now) ==
  IF is_express THEN "EXPRESS"
  ELSE IF DateOf(pickup_slot) > DateOf(now) THEN "NEXT_DAY"
  ELSE IF (pickup_slot - now) * 60 < SAME_DAY_HOURS * 3600 THEN "SAME_DAY"
  ELSE "STANDARD"

\* (pickup_slot - now).total_seconds() / 3600 <= 4, in seconds
determine_time_factor(is_express, pickup_slot, now) ==
  IF is_express THEN "EXPRESS"
  ELSE IF DateOf(pickup_slot) > DateOf(now) THEN "NEXT_DAY"
  ELSE IF (pickup_slot - now) * 60 <= SAME_DAY_HOURS * 3600 THEN "SAME_DAY"
  ELSE "STANDARD"

\* pickup slots: yesterday 23:00, today 08:00 .. 19:00, the next two days
PickupSlots == {-60, 480, 600, 840, 885, 886, 1140, 1980, 3480}

DetermineTimeFactorCall ==
  /\ response.op = "determine_time_factor.call"
  /\ response' =
       [response EXCEPT
          !.op = "determine_time_factor",
          !.time_factor = determine_time_factor(response.is_express,
                                                response.pickup_slot,
                                                response.now)]
  /\ UNCHANGED << orders, events, riders, routes, otp, clock, failed, used, sess >>

InitTimeFactor ==
  /\ orders = << >>
  /\ events = << >>
  /\ routes = << >>
  /\ otp = << >>
  /\ clock = 0
  /\ failed = [k \in OtpKeys |-> 0]
  /\ used = {}
  /\ sess = IdleSessions
  /\ riders = [r \in Riders |-> RiderRow("OFF_DUTY", Null)]
  /\ \E is_express \in BOOLEAN, pickup_slot \in PickupSlots, now \in NowTimes :
       response = [op |-> "determine_time_factor.call", is_express |-> is_express,
                   pickup_slot |-> pickup_slot, now |-> now,
                   time_factor |-> None]

NextTimeFactor == DetermineTimeFactorCall

SpecTimeFactor == InitTimeFactor /\ [][NextTimeFactor]_vars

(* ------------------------------------------------------------------ *)
(* services/route_optimizer.py check_return_trip_pickup and             *)
(* routers/webhooks.py return_trip_check.  Positions and distances of   *)
(* this part are in hundredths of a kilometre along the road, the       *)
(* precision haversine_distance rounds to.                              *)
(* ------------------------------------------------------------------ *)
\* settings.MAX_DETOUR_KM = 2.0, in hundredths of a kilometre
MAX_DETOUR_KM == 200

MAX_RETURN_PICKUPS == 3

MaxPending == 4

RECURSIVE InsertByDetour(_, _)
\* list.sort(key=detour_km) is stable: an element goes after its equals
InsertByDetour(sorted, pickup) ==
  IF sorted = << >> THEN << pickup >>
  ELSE IF pickup.detour_km < Head(sorted).detour_km THEN << pickup >> \o sorted
  ELSE << Head(sorted) >> \o InsertByDetour(Tail(sorted), pickup)

RECURSIVE SortByDetour(_)
SortByDetour(seq) ==
  IF seq = << >> THEN << >>
  ELSE InsertByDetour(SortByDetour(SubSeq(seq, 1, Len(seq) - 1)), seq[Len(seq)])

RECURSIVE EligibleLoop(_, _, _, _, _)
\* the loop of check_return_trip_pickup over pending_pickups
EligibleLoop(pending_pickups, rider_location, warehouse_location, direct_distance, max_detour_km) ==
  IF pending_pickups = << >> THEN << >>
  ELSE LET pickup == Head(pending_pickups)
           d_to_pickup == haversine_distance(rider_location, pickup.loc)
           d_pickup_to_warehouse == haversine_distance(pickup.loc, warehouse_location)
           detour == (d_to_pickup + d_pickup_to_warehouse) - direct_distance
           rest == EligibleLoop(Tail(pending_pickups), rider_location,
                                warehouse_location, direct_distance, max_detour_km)
       IN  IF detour <= max_detour_km
             THEN << [order_id |-> pickup.order_id, loc |-> pickup.loc,
                      detour_km |-> detour] >> \o rest
             ELSE rest

\* check_return_trip_pickup that returns the pickups in the order found
check_return_trip_pickup_unsorted(rider_location, warehouse_location, pending_pickups, max_detour_km) ==
  EligibleLoop(pending_pickups, rider_location, warehouse_location,
               haversine_distance(rider_location, warehouse_location),
               max_detour_km)

check_return_trip_pickup(rider_location, warehouse_location, pending_pickups, max_detour_km) ==
  SortByDetour(EligibleLoop(pending_pickups, rider_location, warehouse_location,
                            haversine_distance(rider_location, warehouse_location),
                            max_detour_km))

\* the pending_list of return_trip_check, in the order of the query
PendingList(ot) ==
  LET pending == { o \in DOMAIN ot : /\ ot[o].status = "PICKUP_SCHEDULED"
                                     /\ ot[o].pickup_rider_id = None
                                     /\ ot[o].pickup_loc # Null }
      ids == FilterSeq([i \in 1..Cardinality(DOMAIN ot) |-> i], pending)
  IN  [i \in 1..Len(ids) |-> [order_id |-> ids[i], loc |-> ot[ids[i]].pickup_loc]]

\* eligible[:n]
Truncate(seq, n) == SubSeq(seq, 1, IF Len(seq) < n THEN Len(seq) ELSE n)

return_trip_check(rider_id) ==
  /\ response.op = "return_trip_check.call"
  /\ response.rider_id = rider_id
  /\ LET rider == riders[rider_id]
         eligible ==
           check_return_trip_pickup(rider.current_loc,
                                    WarehouseLoc[rider.warehouse_id],
                                    PendingList(orders), MAX_DETOUR_KM)
     IN  IF rider_id \notin DOMAIN riders \/ riders[rider_id].current_loc = Null
           THEN response' = [op |-> "return_trip_check", rider_id |-> rider_id,
                             eligible_pickups |-> << >>]
         ELSE IF rider.warehouse_id \notin DOMAIN WarehouseLoc
           THEN response' = [op |-> "return_trip_check", rider_id |-> rider_id,
                             eligible_pickups |-> << >>]
         ELSE response' = [op |-> "return_trip_check", rider_id |-> rider_id,
                           eligible_pickups |->
                             Truncate(eligible, MAX_RETURN_PICKUPS)]
  /\ UNCHANGED << orders, events, riders, routes, otp, clock, failed, used, sess >>

\* the orders a return-trip check can meet: scheduled pickups without a
\* rider at several places, one with a rider, and an order not scheduled
PendingRows ==
  { [OrderRow(Some(loc), Some(600), None, "COD") EXCEPT !.status = "PICKUP_SCHEDULED"] :
      loc \in {150, 350, 370, 375} }
  \cup { [OrderRow(Some(150), Some(600), None, "COD") EXCEPT
            !.status = "PICKUP_SCHEDULED", !.pickup_rider_id = "r2"],
         [OrderRow(Some(150), Some(600), None, "COD") EXCEPT
            !.status = "PAYMENT_CONFIRMED"] }

InitReturnTrip ==
  /\ orders \in [1..MaxPending -> PendingRows]
  /\ events = << >>
  /\ routes = << >>
  /\ otp = << >>
  /\ clock = 0
  /\ failed = [k \in OtpKeys |-> 0]
  /\ used = {}
  /\ sess = IdleSessions
  /\ riders = [r \in Riders |->
                 IF r = "r1" THEN RiderRow("ON_DELIVERY", Some(300))
                 ELSE RiderRow("ON_DUTY", Null)]
  /\ \E rider_id \in Riders :
       response = [op |-> "return_trip_check.call", rider_id |-> rider_id,
                   eligible_pickups |-> << >>]

NextReturnTrip == \E rider_id \in Riders : return_trip_check(rider_id)

SpecReturnTrip == InitReturnTrip /\ [][NextReturnTrip]_vars

(* ------------------------------------------------------------------ *)
(* The selection of _assign_nearest_pickup_rider on its own: the riders *)
(* table, the pickup point, the order in which the query returns the    *)
(* rows and what get_distance answers for each rider are drawn, then    *)
(* the selection is applied.                                            *)
(* ------------------------------------------------------------------ *)
SelectStatuses == {"ON_DUTY", "OFF_DUTY"}

\* no GPS, a position near the first pickup point, one near the second
SelectLocs == {Null, Some(10), Some(40)}

SelectDepots == {"w1", None}

PickupPoints == {Some(10), Some(30)}

TravelAnswers == {Fallback, Raises, Routed(5), Routed(20)}

RiderOrders == { << "r1", "r2" >>, << "r2", "r1" >> }

SelectRows ==
  { [RiderRow(st, loc) EXCEPT !.warehouse_id = w] :
      st \in SelectStatuses, loc \in SelectLocs, w \in SelectDepots }

SelectPickupRiderCall ==
  /\ response.op = "select.call"
  /\ LET best == select_pickup_rider(response.rider_seq, riders,
                                     response.pickup, response.travel)
     IN  response' = [op |-> "select", rider_seq |-> response.rider_seq,
                      pickup |-> response.pickup, travel |-> response.travel,
                      rider |-> best.rider, distance_km |-> best.distance_km]
  /\ UNCHANGED << orders, events, riders, routes, otp, clock, failed, used, sess >>

InitSelect ==
  /\ orders = << >>
  /\ events = << >>
  /\ routes = << >>
  /\ otp = << >>
  /\ clock = 0
  /\ failed = [k \in OtpKeys |-> 0]
  /\ used = {}
  /\ sess = IdleSessions
  /\ riders \in [Riders -> SelectRows]
  /\ \E rider_seq \in RiderOrders, pickup \in PickupPoints,
        travel \in [Riders -> TravelAnswers] :
       response = [op |-> "select.call", rider_seq |-> rider_seq,
                   pickup |-> pickup, travel |-> travel]

NextSelect == SelectPickupRiderCall

SpecSelect == InitSelect /\ [][NextSelect]_vars

(* ------------------------------------------------------------------ *)
(* The unit of work of one request: a handler changes rows on its       *)
(* session, db.commit() makes the session's changes durable, and the    *)
(* session is handed back to get_db when the handler returns.  orders,  *)
(* riders, events and routes are the committed tables; the session of   *)
(* the request in flight is sess[TxProc].tables.                        *)
(* ------------------------------------------------------------------ *)
TxProc == "p1"

\* the committed tables, as a session reads them
Committed == [orders |-> orders, riders |-> riders, events |-> events, routes |-> routes]

\* a handler has changed rows and stands before the statement `next`
TxAt(next, tables, result) == [pc |-> next, tables |-> tables, result |-> result]

\* confirm_payment up to the audit event (payments.py lines 204-246)
TxConfirmPayment(o, mode, pickup_code, drop_code) ==
  /\ sess = IdleSessions
  /\ Tick
  /\ IF o \notin DOMAIN orders
       THEN /\ response' = [op |-> "confirm_payment", code |-> 404, order |-> o]
            /\ UNCHANGED << otp, failed, used, sess >>
     ELSE IF orders[o].payment = "PAID"
       THEN /\ response' = [op |-> "confirm_payment", code |-> 200, order |-> o,
                            status |-> "already_paid"]
            /\ UNCHANGED << otp, failed, used, sess >>
     ELSE LET paid == [orders EXCEPT
                         ![o].payment_mode = mode,
                         ![o].payment = IF mode = "COD" THEN "PENDING" ELSE "PAID",
                         ![o].status = "PAYMENT_CONFIRMED"]
              logged == AddEvent(events, o,
                                 OrderEvent("ORDER_PLACED", "PAYMENT_CONFIRMED",
                                            "SYSTEM"))
          IN  /\ otp' = generate_otp(generate_otp(otp, << o, "pickup" >>, pickup_code),
                                     << o, "drop" >>, drop_code)
              /\ failed' = [failed EXCEPT ![<< o, "pickup" >>] = 0,
                                          ![<< o, "drop" >>] = 0]
              /\ used' = { u \in used : u[1][1] # o }
              /\ sess' = [sess EXCEPT ![TxProc] =
                            TxAt("confirm.commit",
                                 [Committed EXCEPT !.orders = paid, !.events = logged],
                                 [op |-> "confirm_payment", code |-> 200,
                                  order |-> o, status |-> "confirmed"])]
              /\ response' = [op |-> "confirm_payment.begin", order |-> o]
  /\ UNCHANGED << orders, events, riders, routes >>

\* `await db.commit()`: the changes of the session become durable
TxDbCommit ==
  /\ sess[TxProc].pc \in {"confirm.commit", "verify.commit", "intake.commit",
                          "optimize.commit"}
  /\ orders' = sess[TxProc].tables.orders
  /\ riders' = sess[TxProc].tables.riders
  /\ events' = sess[TxProc].tables.events
  /\ routes' = sess[TxProc].tables.routes
  /\ sess' = [sess EXCEPT ![TxProc].pc =
                IF @ = "confirm.commit" THEN "confirm.assign" ELSE "return"]
  /\ response' = [op |-> "db.commit", order |-> sess[TxProc].result.order]
  /\ UNCHANGED << otp, clock, failed, used >>

\* confirm_payment after its commit: the pickup assignment (lines 266-267)
TxConfirmAssign ==
  /\ sess[TxProc].pc = "confirm.assign"
  /\ LET o == sess[TxProc].result.order
         a == _assign_nearest_pickup_rider(o, sess[TxProc].tables.orders, riders,
                                           sess[TxProc].tables.events)
     IN  sess' = [sess EXCEPT ![TxProc] =
                    TxAt("return",
                         [@.tables EXCEPT !.orders = a.orders, !.riders = a.riders,
                                          !.events = a.events],
                         [@.result EXCEPT !.status =
                            IF a.assignment = Null THEN "confirmed"
                            ELSE "confirmed_and_assigned"])]
  /\ response' = [op |-> "confirm_payment.assign",
                  order |-> sess[TxProc].result.order]
  /\ UNCHANGED << orders, events, riders, routes, otp, clock, failed, used >>

\* assign_rider_to_order: it changes rows and returns without a commit
TxAssignRider(o) ==
  /\ sess = IdleSessions
  /\ Tick
  /\ IF o \notin DOMAIN orders
       THEN /\ response' = [op |-> "assign_rider", code |-> 404, order |-> o]
            /\ UNCHANGED sess
     ELSE IF orders[o].status # "PAYMENT_CONFIRMED"
       THEN /\ response' = [op |-> "assign_rider", code |-> 400, order |-> o]
            /\ UNCHANGED sess
     ELSE IF orders[o].pickup_rider_id # None
       THEN /\ response' = [op |-> "assign_rider", code |-> 200, order |-> o,
                            status |-> "already_assigned"]
            /\ UNCHANGED sess
     ELSE LET a == _assign_nearest_pickup_rider(o, orders, riders, events)
          IN  IF a.assignment = Null
                THEN /\ response' = [op |-> "assign_rider", code |-> 503,
                                     order |-> o]
                     /\ UNCHANGED sess
                ELSE /\ sess' = [sess EXCEPT ![TxProc] =
                                   TxAt("return",
                                        [Committed EXCEPT !.orders = a.orders,
                                                          !.riders = a.riders,
                                                          !.events = a.events],
                                        [op |-> "assign_rider", code |-> 200,
                                         order |-> o, status |-> "assigned"])]
                     /\ response' = [op |-> "assign_rider.begin", order |-> o]
  /\ UNCHANGED << orders, events, riders, routes, otp, failed, used >>

\* verify_order_otp up to the event (orders.py lines 262-283)
TxVerifyOrderOtp(o, leg, provided) ==
  /\ sess = IdleSessions
  /\ Tick
  /\ failed[<< o, leg >>] < MaxFailed
  /\ LET key == << o, leg >>
         v == verify_otp(otp, key, provided)
         to == IF leg = "pickup" THEN "PICKED_UP" ELSE "DELIVERED"
         verified == [orders EXCEPT
                        ![o].status = to,
                        ![o].pickup_confirmed_at = IF leg = "pickup" THEN Now ELSE @,
                        ![o].delivered_at = IF leg = "pickup" THEN @ ELSE Now]
     IN  /\ otp' = v.store
         /\ failed' = FailedAfterVerify(key, v.result)
         /\ used' = UsedAfterVerify(key, provided, v.result)
         /\ IF v.result.valid /\ o \in DOMAIN orders
              THEN /\ sess' = [sess EXCEPT ![TxProc] =
                                 TxAt("verify.commit",
                                      [Committed EXCEPT
                                         !.orders = verified,
                                         !.events = AddEvent(events, o,
                                                      OrderEvent(to, to, "RIDER"))],
                                      [op |-> "verify_order_otp", code |-> 200,
                                       order |-> o, status |-> "valid"])]
                   /\ response' = [op |-> "verify_order_otp.begin", order |-> o]
              ELSE /\ response' = [op |-> "verify_order_otp", code |-> 200,
                                   order |-> o, status |-> "invalid"]
                   /\ UNCHANGED sess
  /\ UNCHANGED << orders, events, riders, routes >>

\* warehouse_intake up to its commit (webhooks.py lines 50-67)
TxWarehouseIntake(order_ids, w) ==
  /\ sess = IdleSessions
  /\ Tick
  /\ LET found == SeqOfSet(order_ids \cap DOMAIN orders)
         done == IntakeEach(found, w, orders, events, Now)
     IN  sess' = [sess EXCEPT ![TxProc] =
                    TxAt("intake.commit",
                         [Committed EXCEPT !.orders = done.orders,
                                           !.events = done.events],
                         [op |-> "warehouse_intake", code |-> 200,
                          order |-> found, status |-> "updated"])]
  /\ response' = [op |-> "warehouse_intake.begin", order |-> order_ids]
  /\ UNCHANGED << orders, events, riders, routes, otp, failed, used >>

\* optimize_routes up to its commit (webhooks.py lines 104-210)
TxOptimizeRoutes(w, visit) ==
  /\ sess = IdleSessions
  /\ Tick
  /\ LET parcels == SeqOfSet(AtWarehouse(orders, w))
         done == RunOptimizer(parcels, AvailableRiders(riders, w), w, visit,
                              [orders |-> orders, riders |-> riders,
                               events |-> events, routes |-> routes,
                               created |-> 0])
     IN  IF parcels = << >>
           THEN /\ response' = [op |-> "optimize_routes", code |-> 200,
                                warehouse_id |-> w, routes_created |-> 0]
                /\ UNCHANGED sess
           ELSE /\ sess' = [sess EXCEPT ![TxProc] =
                              TxAt("optimize.commit",
                                   [orders |-> done.orders, riders |-> done.riders,
                                    events |-> done.events, routes |-> done.routes],
                                   [op |-> "optimize_routes", code |-> 200,
                                    order |-> parcels, status |-> "optimized"])]
                /\ response' = [op |-> "optimize_routes.begin", order |-> parcels]
  /\ UNCHANGED << orders, events, riders, routes, otp, failed, used >>

\* the handler returns: the response goes out and get_db closes the session
TxReturn ==
  /\ sess[TxProc].pc = "return"
  /\ LET done == get_db_exit(Committed, sess[TxProc].tables)
     IN  /\ orders' = done.orders
         /\ riders' = done.riders
         /\ events' = done.events
         /\ routes' = done.routes
  /\ response' = sess[TxProc].result
  /\ sess' = IdleSessions
  /\ UNCHANGED << otp, clock, failed, used >>

InitTx ==
  /\ orders = [o \in OrderIds |-> PlacedRow]
  /\ events = [o \in OrderIds |-> PlacedEvents]
  /\ routes = << >>
  /\ otp = << >>
  /\ clock = 0
  /\ response = NoRequest
  /\ failed = [k \in OtpKeys |-> 0]
  /\ used = {}
  /\ sess = IdleSessions
  /\ \E s1, s2 \in {"ON_DUTY", "OFF_DUTY"} :
       riders = [r \in Riders |->
                   IF r = "r1" THEN RiderRow(s1, Some(10)) ELSE RiderRow(s2, Null)]

NextTx ==
  \/ \E o \in OrderIds, mode \in PaymentModes, c \in DrawnCodes :
       TxConfirmPayment(o, mode, c, c)
  \/ TxDbCommit
  \/ TxConfirmAssign
  \/ \E o \in OrderIds : TxAssignRider(o)
  \/ \E o \in OrderIds, leg \in Legs, code \in Codes : TxVerifyOrderOtp(o, leg, code)
  \/ \E ids \in (SUBSET OrderIds) \ {{}}, w \in Warehouses :
       TxWarehouseIntake(ids, w)
  \/ \E w \in Warehouses, visit \in Perms(OrderIds) : TxOptimizeRoutes(w, visit)
  \/ TxReturn

SpecTx == InitTx /\ [][NextTx]_vars

(* ------------------------------------------------------------------ *)
(* The system on its own: every operation of the API except the manual  *)
(* PATCH /api/riders/{id}/status.  Requests keep being served as long   *)
(* as one can be.                                                       *)
(* ------------------------------------------------------------------ *)
\* GET /api/orders/{order_id}: a read, which writes no row and stamps no
\* event, so the clock of the writes stands
get_order(o) ==
  /\ response' = IF o \in DOMAIN orders
                   THEN [op |-> "get_order", order |-> o, status |-> 200,
                         body |-> orders[o]]
                   ELSE [op |-> "get_order", order |-> o, status |-> 404]
  /\ UNCHANGED << orders, events, riders, routes, otp, clock, failed, used, sess >>

\* the statuses the rider app and the depot report for an order
ReportedStatuses == {"IN_TRANSIT_TO_WAREHOUSE", "DELIVERED", "CANCELLED"}

NextRelease ==
  \/ \E o \in OrderIds : get_order(o)
  \/ \E o \in OrderIds : assign_rider_to_order(o)
  \/ \E o \in OrderIds, status \in ReportedStatuses :
       update_order_status(o, status, "RIDER")
  \/ \E o \in OrderIds, leg \in Legs, code \in DrawnCodes :
       verify_order_otp(o, leg, code)
  \/ \E o \in OrderIds, c \in DrawnCodes : confirm_payment(o, "COD", c, c)
  \/ \E ids \in (SUBSET OrderIds) \ {{}}, w \in Warehouses :
       warehouse_intake(ids, w)
  \/ \E w \in Warehouses, visit \in Perms(OrderIds) : optimize_routes(w, visit)

SpecRelease == InitTx /\ [][NextRelease]_vars /\ WF_vars(NextRelease)

(* ------------------------------------------------------------------ *)
(* Concurrent POST /api/orders: the idempotency lookup is a SELECT, the *)
(* insert is flushed by `await db.commit()`, and the awaits between them *)
(* (user lookup, geocode, get_distance) let another request run.  The   *)
(* idempotency_key column is unique (models/order.py), so the commit of *)
(* a second row with a key already stored raises IntegrityError, which  *)
(* create_order does not catch.                                         *)
(* ------------------------------------------------------------------ *)
\* the request of process p is answered
CreateAnswered(p, key, code, order, created) ==
  [pc |-> "done", key |-> key, code |-> code, order |-> order, created |-> created]

\* create_order up to the Order(...) constructor: lookup, user, geocode
CreateLookup(p, key, registered, pickup_address, drop_address) ==
  /\ sess[p].pc = "idle"
  /\ Tick
  /\ LET found == { o \in DOMAIN orders :
                      key # None /\ orders[o].idempotency_key = key }
         code == IF found # {} THEN 200
                 ELSE IF ~registered THEN 404
                 ELSE IF geocode(pickup_address) = Null
                         \/ geocode(drop_address) = Null THEN 400
                 ELSE 0
     IN  IF found # {}
           THEN LET o == CHOOSE o \in found : TRUE
                IN  /\ response' = [op |-> "create_order", code |-> 200,
                                    order |-> o, created |-> FALSE, key |-> key]
                    /\ sess' = [sess EXCEPT ![p] = CreateAnswered(p, key, 200, o, FALSE)]
         ELSE IF code # 0
           THEN /\ response' = [op |-> "create_order", code |-> code, key |-> key]
                /\ sess' = [sess EXCEPT ![p] = CreateAnswered(p, key, code, 0, FALSE)]
         ELSE /\ sess' = [sess EXCEPT ![p] =
                            [pc |-> "commit", key |-> key,
                             pickup |-> geocode(pickup_address),
                             drop |-> geocode(drop_address)]]
              /\ UNCHANGED response
  /\ UNCHANGED << orders, events, riders, routes, otp, failed, used >>

\* db.add(order), db.add(event), await db.commit()
CreateCommit(p) ==
  /\ sess[p].pc = "commit"
  /\ LET key == sess[p].key
         taken == key # None
                    /\ \E o \in DOMAIN orders : orders[o].idempotency_key = key
         new == Cardinality(DOMAIN orders) + 1
     IN  IF taken
           THEN /\ response' = [op |-> "create_order", code |-> 500,
                                error |-> "IntegrityError", key |-> key]
                /\ sess' = [sess EXCEPT ![p] = CreateAnswered(p, key, 500, 0, FALSE)]
                /\ UNCHANGED << orders, events >>
         ELSE /\ new \in OrderIds
              /\ orders' = Put(orders, new,
                               OrderRow(sess[p].pickup, sess[p].drop, key, "COD"))
              /\ events' = AddEvent(events, new,
                                    OrderEvent(None, "ORDER_PLACED", "USER"))
              /\ response' = [op |-> "create_order", code |-> 200,
                              order |-> new, created |-> TRUE, key |-> key]
              /\ sess' = [sess EXCEPT ![p] = CreateAnswered(p, key, 200, new, TRUE)]
  /\ UNCHANGED << riders, routes, otp, clock, failed, used >>

\* the keys the two clients send: none, the same one, or one each
CreateKeys == IdempotencyKeys \cup {"k2"}

InitCreate ==
  /\ InitTables
  /\ riders = [r \in Riders |-> RiderRow("OFF_DUTY", Null)]

NextCreate ==
  \/ \E p \in Procs, key \in CreateKeys, registered \in BOOLEAN,
        a \in AddressPairs :
       CreateLookup(p, key, registered, a[1], a[2])
  \/ \E p \in Procs : CreateCommit(p)

SpecCreate == InitCreate /\ [][NextCreate]_vars

(* ------------------------------------------------------------------ *)
(* services/notifications.py and the handlers that notify.  `outcome`   *)
(* is what the Telegram API call of the request does: it answers 200,   *)
(* answers with another status, or raises (timeout, no connection).     *)
(* ------------------------------------------------------------------ *)
NotifyOutcomes == {"200", "400", "error"}

\* send_telegram_message whose try/except is missing
send_telegram_message_unguarded(outcome) ==
  [raised |-> outcome = "error", sent |-> outcome = "200"]

\* send_telegram_message: whether it raised and the bool it returned
send_telegram_message(outcome) ==
  LET post == [raised |-> outcome = "error", status_code |-> outcome]
  IN  IF post.raised THEN [raised |-> FALSE, sent |-> FALSE]
      ELSE [raised |-> FALSE, sent |-> post.status_code = "200"]

notify_user_order_status(outcome) == send_telegram_message(outcome)

notify_rider_task(outcome) == send_telegram_message(outcome)

\* try: await notify(...)  except Exception: log
TryExcept(call) == [call EXCEPT !.raised = FALSE]

\* the session rows of a result
Tables(t) == [orders |-> t.orders, riders |-> t.riders, events |-> t.events]

\* what _assign_nearest_pickup_rider leaves once its notifications ran
AssignNotified(a, ot, rt, et, raised) ==
  IF a.assignment # Null /\ raised
    THEN [orders |-> ot, riders |-> rt, events |-> et,
          code |-> 500, status |-> "error"]
    ELSE Tables(a) @@
         [code |-> 200,
          status |-> IF a.assignment = Null THEN "unassigned" ELSE "assigned"]

\* _assign_nearest_pickup_rider with its two notifications (lines 152-183)
AssignNotifying(o, ot, rt, et, outcome) ==
  AssignNotified(_assign_nearest_pickup_rider(o, ot, rt, et), ot, rt, et,
                 \/ TryExcept(notify_rider_task(outcome)).raised
                 \/ TryExcept(notify_user_order_status(outcome)).raised)

\* confirm_payment after its commit: the notification, then the assignment
ConfirmNotified(paid, a, raised) ==
  IF raised \/ a.code = 500
    THEN paid @@ [code |-> 500, status |-> "error"]
    ELSE get_db_exit(paid, Tables(a)) @@ [code |-> 200, status |-> a.status]

\* confirm_payment: the tables it leaves and its answer
ConfirmNotifying(o, mode, outcome) ==
  LET paid == [orders EXCEPT
                 ![o].payment_mode = mode,
                 ![o].payment = IF mode = "COD" THEN "PENDING" ELSE "PAID",
                 ![o].status = "PAYMENT_CONFIRMED"]
      logged == AddEvent(events, o,
                         OrderEvent("ORDER_PLACED", "PAYMENT_CONFIRMED", "SYSTEM"))
      unchanged == [orders |-> orders, riders |-> riders, events |-> events]
  IN  IF o \notin DOMAIN orders
        THEN unchanged @@ [code |-> 404, status |-> "not_found"]
      ELSE IF orders[o].payment = "PAID"
        THEN unchanged @@ [code |-> 200, status |-> "already_paid"]
      ELSE ConfirmNotified([orders |-> paid, riders |-> riders, events |-> logged],
                           AssignNotifying(o, paid, riders, logged, outcome),
                           TryExcept(notify_user_order_status(outcome)).raised)

\* assign_rider_to_order once the assignment ran
AssignRiderNotified(unchanged, a) ==
  IF a.code = 500 THEN unchanged @@ [code |-> 500, status |-> "error"]
  ELSE IF a.status = "unassigned"
    THEN unchanged @@ [code |-> 503, status |-> "unassigned"]
  ELSE get_db_exit(unchanged, Tables(a)) @@ [code |-> 200, status |-> "assigned"]

\* assign_rider_to_order: the tables it leaves and its answer
AssignRiderNotifying(o, outcome) ==
  LET unchanged == [orders |-> orders, riders |-> riders, events |-> events]
  IN  IF o \notin DOMAIN orders
        THEN unchanged @@ [code |-> 404, status |-> "not_found"]
      ELSE IF orders[o].status # "PAYMENT_CONFIRMED"
        THEN unchanged @@ [code |-> 400, status |-> "bad_status"]
      ELSE IF orders[o].pickup_rider_id # None
        THEN unchanged @@ [code |-> 200, status |-> "already_assigned"]
      ELSE AssignRiderNotified(unchanged,
                               AssignNotifying(o, orders, riders, events, outcome))

\* optimize_routes once the optimizer ran
OptimizeNotified(unchanged, done, notified, raised) ==
  IF done.created > 0 /\ notified /\ raised
    THEN unchanged @@ [code |-> 500]
    ELSE done @@ [code |-> 200]

\* optimize_routes: notify_rider_task is awaited inside the loop, outside
\* any try (lines 193-202), before the commit of line 212
OptimizeNotifying(w, visit, outcome) ==
  LET parcels == SeqOfSet(AtWarehouse(orders, w))
      available_riders == AvailableRiders(riders, w)
      unchanged == [orders |-> orders, riders |-> riders, events |-> events,
                    routes |-> routes, created |-> 0]
  IN  IF parcels = << >> THEN unchanged @@ [code |-> 200]
      ELSE OptimizeNotified(unchanged,
                            RunOptimizer(parcels, available_riders, w, visit, unchanged),
                            available_riders # << >>,
                            notify_rider_task(outcome).raised)

\* the request ends: its rows and its answer
ConfirmPaymentEnds(done, o, mode, pickup_code, drop_code, outcome) ==
  /\ orders' = done.orders
  /\ riders' = done.riders
  /\ events' = done.events
  /\ IF done.status \in {"not_found", "already_paid"}
       THEN UNCHANGED << otp, failed, used >>
       ELSE /\ otp' = generate_otp(generate_otp(otp, << o, "pickup" >>, pickup_code),
                                   << o, "drop" >>, drop_code)
            /\ failed' = [failed EXCEPT ![<< o, "pickup" >>] = 0,
                                        ![<< o, "drop" >>] = 0]
            /\ used' = { u \in used : u[1][1] # o }
  /\ response' = [op |-> "confirm_payment", code |-> done.code,
                  status |-> done.status, order |-> o, mode |-> mode,
                  notify |-> outcome]

NotifyingConfirmPayment(o, mode, pickup_code, drop_code, outcome) ==
  /\ Tick
  /\ ConfirmPaymentEnds(ConfirmNotifying(o, mode, outcome), o, mode,
                        pickup_code, drop_code, outcome)
  /\ UNCHANGED << routes, sess >>

AssignRiderEnds(done, o, outcome) ==
  /\ orders' = done.orders
  /\ riders' = done.riders
  /\ events' = done.events
  /\ response' = [op |-> "assign_rider", code |-> done.code,
                  status |-> done.status, order |-> o, notify |-> outcome]

NotifyingAssignRider(o, outcome) ==
  /\ Tick
  /\ AssignRiderEnds(AssignRiderNotifying(o, outcome), o, outcome)
  /\ UNCHANGED << routes, otp, failed, used, sess >>

OptimizeRoutesEnds(done, w, visit, outcome) ==
  /\ orders' = done.orders
  /\ riders' = done.riders
  /\ events' = done.events
  /\ routes' = done.routes
  /\ response' = [op |-> "optimize_routes", code |-> done.code,
                  warehouse_id |-> w, visit |-> visit,
                  routes_created |-> done.created, notify |-> outcome]

NotifyingOptimizeRoutes(w, visit, outcome) ==
  /\ Tick
  /\ OptimizeRoutesEnds(OptimizeNotifying(w, visit, outcome), w, visit, outcome)
  /\ UNCHANGED << otp, failed, used, sess >>

NextNotify ==
  \/ \E o \in OrderIds, mode \in PaymentModes, c \in DrawnCodes, outcome \in NotifyOutcomes :
       NotifyingConfirmPayment(o, mode, c, c, outcome)
  \/ \E o \in OrderIds, outcome \in NotifyOutcomes : NotifyingAssignRider(o, outcome)
  \/ \E r \in Riders, status \in RequestedRiderStatuses :
       update_rider_status(r, status)
  \/ \E ids \in (SUBSET OrderIds) \ {{}}, w \in Warehouses :
       warehouse_intake(ids, w)
  \/ \E w \in Warehouses, visit \in Perms(OrderIds), outcome \in NotifyOutcomes :
       NotifyingOptimizeRoutes(w, visit, outcome)

SpecNotify == InitTx /\ [][NextNotify]_vars

(* ------------------------------------------------------------------ *)
(* The OTP service on its own: generate, verify, expiry of the TTL      *)
(* ------------------------------------------------------------------ *)
OtpSpecKeys == {<< 1, "pickup" >>, << 1, "drop" >>}

OtpGenerate(key, code) ==
  /\ otp' = generate_otp(otp, key, code)
  /\ failed' = [failed EXCEPT ![key] = 0]
  /\ used' = UsedAfterGenerate(key)
  /\ response' = [op |-> "generate_otp", key |-> key, otp |-> code]
  /\ UNCHANGED << orders, events, riders, routes, clock, sess >>

OtpVerify(key, provided) ==
  /\ failed[key] < MaxFailed
  /\ LET v == verify_otp(otp, key, provided)
     IN  /\ otp' = v.store
         /\ failed' = FailedAfterVerify(key, v.result)
         /\ used' = UsedAfterVerify(key, provided, v.result)
         /\ response' = [op |-> "verify_otp", key |-> key,
                         provided |-> provided, result |-> v.result]
  /\ UNCHANGED << orders, events, riders, routes, clock, sess >>

\* the 10-minute TTL set by generate_otp runs out
OtpExpire(key) ==
  /\ key \in DOMAIN otp
  /\ otp' = redis_delete(otp, key)
  /\ response' = [op |-> "expire", key |-> key]
  /\ UNCHANGED << orders, events, riders, routes, clock, failed, used, sess >>

InitOtp ==
  /\ InitTables
  /\ riders = [r \in Riders |-> RiderRow("OFF_DUTY", Null)]

NextOtp ==
  \/ \E key \in OtpSpecKeys, code \in Codes : OtpGenerate(key, code)
  \/ \E key \in OtpSpecKeys, code \in Codes : OtpVerify(key, code)
  \/ \E key \in OtpSpecKeys : OtpExpire(key)

SpecOtp == InitOtp /\ [][NextOtp]_vars

(* ------------------------------------------------------------------ *)
(* Concurrent verifications: verify_otp awaits Redis three times        *)
(* (hgetall, hincrby, delete) and takes no lock, so the calls of two    *)
(* requests interleave between these commands.  Order 1 is on its way   *)
(* to pickup; its codes were generated and some wrong guesses were made. *)
(* ------------------------------------------------------------------ *)
\* order 1 while its rider is on the way to the pickup
EnRouteRow ==
  [OrderRow(Some(10), Some(60), None, "COD") EXCEPT
     !.status = "PICKUP_EN_ROUTE", !.pickup_rider_id = "r1"]

EnRouteEvents ==
  << OrderEvent(None, "ORDER_PLACED", "USER"),
     OrderEvent("ORDER_PLACED", "PAYMENT_CONFIRMED", "SYSTEM"),
     OrderEvent("PAYMENT_CONFIRMED", "PICKUP_RIDER_ASSIGNED", "SYSTEM"),
     OrderEvent("PICKUP_RIDER_ASSIGNED", "PICKUP_EN_ROUTE", "SYSTEM") >>

\* a request that has returned
VerifyDone(key, provided, result) ==
  [pc |-> "done", key |-> key, provided |-> provided, result |-> result]

\* data = await r.hgetall(key), and the two early returns (lines 65-71)
VerifyHgetall(p, key, provided) ==
  /\ sess[p].pc = "idle"
  /\ IF key \notin DOMAIN otp
       THEN sess' = [sess EXCEPT ![p] =
                       VerifyDone(key, provided,
                                  [valid |-> FALSE, error |-> "expired",
                                   remaining |-> 0])]
     ELSE IF otp[key].attempts >= MAX_OTP_ATTEMPTS
       THEN sess' = [sess EXCEPT ![p] =
                       VerifyDone(key, provided,
                                  [valid |-> FALSE, error |-> "too_many",
                                   remaining |-> 0])]
     ELSE sess' = [sess EXCEPT ![p] = [pc |-> "read", key |-> key,
                                       provided |-> provided,
                                       data |-> otp[key]]]
  /\ response' = [op |-> "verify_otp.hgetall", proc |-> p]
  /\ UNCHANGED << orders, events, riders, routes, otp, clock, failed, used >>

\* await r.hincrby(key, "attempts", 1) (line 74)
VerifyHincrby(p) ==
  /\ sess[p].pc = "read"
  /\ otp' = hincrby(otp, sess[p].key)
  /\ sess' = [sess EXCEPT ![p].pc = "incremented"]
  /\ response' = [op |-> "verify_otp.hincrby", proc |-> p]
  /\ UNCHANGED << orders, events, riders, routes, clock, failed, used >>

\* bcrypt.checkpw against the hash that was read, then delete or the
\* failure answer (lines 76-85); data["hash"] raises when the field is missing
VerifyCheckpw(p) ==
  /\ sess[p].pc = "incremented"
  /\ LET key == sess[p].key
         provided == sess[p].provided
         data == sess[p].data
         remaining == 2 - data.attempts
     IN  IF data.hash = NoHash
           THEN /\ sess' = [sess EXCEPT ![p] =
                              VerifyDone(key, provided,
                                         [valid |-> FALSE, error |-> "KeyError",
                                          remaining |-> 0])]
                /\ UNCHANGED << otp, failed, used >>
         ELSE IF bcrypt_checkpw(provided, data.hash)
           THEN /\ otp' = redis_delete(otp, key)
                /\ used' = used \cup {<< key, provided >>}
                /\ sess' = [sess EXCEPT ![p] =
                              [pc |-> "valid", key |-> key, provided |-> provided,
                               result |-> [valid |-> TRUE, error |-> None,
                                           remaining |-> 0]]]
                /\ UNCHANGED failed
         ELSE /\ failed' = [failed EXCEPT ![key] = @ + 1]
              /\ sess' = [sess EXCEPT ![p] =
                            VerifyDone(key, provided,
                                       [valid |-> FALSE, error |-> "incorrect",
                                        remaining |->
                                          IF remaining > 0 THEN remaining ELSE 0])]
              /\ UNCHANGED << otp, used >>
  /\ response' = [op |-> "verify_otp.checkpw", proc |-> p]
  /\ UNCHANGED << orders, events, riders, routes, clock >>

\* verify_order_otp after a valid result: status, timestamp, event, commit
\* (orders.py lines 264-284)
VerifyOrderUpdate(p) ==
  /\ sess[p].pc = "valid"
  /\ LET o == sess[p].key[1]
         leg == sess[p].key[2]
         to == IF leg = "pickup" THEN "PICKED_UP" ELSE "DELIVERED"
     IN  IF o \in DOMAIN orders
           THEN /\ orders' =
                     [orders EXCEPT
                        ![o].status = to,
                        ![o].pickup_confirmed_at =
                           IF leg = "pickup" THEN Now ELSE @,
                        ![o].delivered_at = IF leg = "pickup" THEN @ ELSE Now]
                /\ events' = AddEvent(events, o,
                                      OrderEvent(orders'[o].status, to, "RIDER"))
           ELSE UNCHANGED << orders, events >>
  /\ sess' = [sess EXCEPT ![p].pc = "done"]
  /\ response' = [op |-> "verify_order_otp.commit", proc |-> p]
  /\ UNCHANGED << riders, routes, otp, clock, failed, used >>

\* both codes of order 1 were generated; `wrong` wrong guesses were made
\* on the pickup code since
InitVerify ==
  /\ orders = << EnRouteRow >>
  /\ events = << EnRouteEvents >>
  /\ routes = << >>
  /\ clock = 0
  /\ response = NoRequest
  /\ used = {}
  /\ sess = IdleSessions
  /\ riders = [r \in Riders |->
                 IF r = "r1" THEN [RiderRow("ON_PICKUP", Some(10)) EXCEPT
                                     !.current_load = 1]
                 ELSE RiderRow("OFF_DUTY", Null)]
  /\ \E wrong \in 0..MAX_OTP_ATTEMPTS :
       /\ otp = [k \in OtpSpecKeys |->
                   [hash |-> bcrypt_hashpw("111111", Salt),
                    attempts |-> IF k = << 1, "pickup" >> THEN wrong ELSE 0]]
       /\ failed = [k \in OtpKeys |-> IF k = << 1, "pickup" >> THEN wrong ELSE 0]

NextVerify ==
  \/ \E p \in Procs, key \in OtpSpecKeys, provided \in Codes :
       VerifyHgetall(p, key, provided)
  \/ \E p \in Procs : VerifyHincrby(p)
  \/ \E p \in Procs : VerifyCheckpw(p)
  \/ \E p \in Procs : VerifyOrderUpdate(p)

SpecVerify == InitVerify /\ [][NextVerify]_vars

(* ================================================================== *)
(* Claims                                                               *)
(* ================================================================== *)

\* the lifecycle: a status and its immediate successor, or a live order
\* cancelled or refunded
LegalTransition(from, to) ==
  \/ \E i \in 1..(Len(StatusChain) - 1) :
       StatusChain[i] = from /\ StatusChain[i + 1] = to
  \/ from \notin TerminalStatus /\ to \in {"CANCELLED", "REFUNDED"}

\* C1: every change of an order's status goes to the immediate successor
\* in the lifecycle or from a non-terminal status to CANCELLED or REFUNDED;
\* no status is skipped or revisited.
C1_OnlyLegalTransitions ==
  [][\A o \in DOMAIN orders :
       orders'[o].status # orders[o].status
         => LegalTransition(orders[o].status, orders'[o].status)]_vars

\* C2: a request for an illegal transition fails with an error and leaves
\* the order's row (status, timestamps) and its events as they were: a
\* status update or a warehouse intake that is accepted asked for a legal
\* transition, and one that is refused changed nothing.
C2_IllegalTransitionRejected ==
  [][\A o \in DOMAIN orders :
       /\ (response'.op = "update_order_status" /\ response'.order = o)
            => IF response'.code = 200
                 THEN LegalTransition(orders[o].status, response'.new_status)
                 ELSE orders'[o] = orders[o] /\ events'[o] = events[o]
       /\ (response'.op = "warehouse_intake" /\ o \in SeqToSet(response'.updated))
            => LegalTransition(orders[o].status, "AT_WAREHOUSE")]_vars

\* the step put order o into status `to`
Enters(o, to) ==
  /\ o \in DOMAIN orders'
  /\ orders'[o].status = to
  /\ (o \in DOMAIN orders => orders[o].status # to)

\* the step is a successful OTP verification of order o's leg
VerifiedStep(o, leg) ==
  /\ response'.op = "verify_order_otp"
  /\ response'.key = << o, leg >>
  /\ response'.result.valid

\* C3: an order becomes PICKED_UP only in a step in which a pickup-leg OTP
\* verification for it succeeded, and DELIVERED only in a step in which a
\* drop-leg OTP verification for it succeeded.
C3_OtpGatedTransitions ==
  [][\A o \in OrderIds :
       /\ Enters(o, "PICKED_UP") => VerifiedStep(o, "pickup")
       /\ Enters(o, "DELIVERED") => VerifiedStep(o, "drop")]_vars

\* C4: terminal statuses are absorbing: no step changes the status, the
\* couriers or the route of an order that is COMPLETED, CANCELLED or REFUNDED.
C4_TerminalAbsorbing ==
  [][\A o \in DOMAIN orders :
       orders[o].status \in TerminalStatus
         => /\ orders'[o].status = orders[o].status
            /\ orders'[o].pickup_rider_id = orders[o].pickup_rider_id
            /\ orders'[o].delivery_rider_id = orders[o].delivery_rider_id
            /\ orders'[o].delivery_route_id = orders[o].delivery_route_id]_vars

\* C5: the events of an order form a chain that reconstructs it: the first
\* event creates the order, each later event starts from the status the
\* previous one ended in, and the last event ends in the current status.
C5_EventChain ==
  \A o \in DOMAIN orders :
    /\ events[o] # << >>
    /\ events[o][1].from_status = None
    /\ \A i \in 2..Len(events[o]) :
         events[o][i].from_status = events[o][i - 1].to_status
    /\ events[o][Len(events[o])].to_status = orders[o].status

\* the step is an assignment request (assign-rider or confirm-payment) for o
AssignmentRequest(o) ==
  /\ response'.op \in {"assign_rider", "confirm_payment"}
  /\ response'.order = o

\* C8: assignment is idempotent: an assignment request for an order that
\* already has a pickup courier is a no-op; the order keeps its courier and
\* status, no courier's status or load changes and no event is recorded.
C8_AssignmentIdempotent ==
  [][\A o \in DOMAIN orders :
       (orders[o].pickup_rider_id # None /\ AssignmentRequest(o))
         => /\ orders'[o].pickup_rider_id = orders[o].pickup_rider_id
            /\ orders'[o].status = orders[o].status
            /\ riders' = riders
            /\ events' = events]_vars

\* a step that is a verification of `key`
VerifyStep(key) ==
  /\ response'.op \in {"verify_otp", "verify_order_otp"}
  /\ response'.key = key

\* C6: once 3 verifications of a generated code have failed for an
\* (order, leg) pair, every later verification of that pair is rejected,
\* whatever code it supplies (the correct one included), until a new code
\* is generated for the pair.
C6_ExhaustedCodeStaysRejected ==
  [][\A key \in OtpKeys :
       (failed[key] >= MAX_OTP_ATTEMPTS /\ VerifyStep(key))
         => ~response'.result.valid]_vars

\* C6 witness: the 4th attempt supplied the code still stored for the pair
\* (the correct one) after 3 failures, and was rejected as exhausted.
C6_Witness ==
  \E key \in OtpKeys :
    /\ failed[key] = MAX_OTP_ATTEMPTS + 1
    /\ key \in DOMAIN otp
    /\ response.op = "verify_otp"
    /\ response.key = key
    /\ bcrypt_checkpw(response.provided, otp[key].hash)
    /\ response.result.error = "too_many"

\* C7: a code is single use: the verification that accepts a code deletes
\* the stored entry of its (order, leg) pair, and a later verification with
\* that same code is invalid until a new code is generated.
C7_SingleUse ==
  [][\A key \in OtpKeys :
       VerifyStep(key) =>
         /\ response'.result.valid => key \notin DOMAIN otp'
         /\ << key, response'.provided >> \in used => ~response'.result.valid]_vars

\* C7 witness: the code accepted before was supplied again and refused.
C7_Witness ==
  /\ response.op = "verify_otp"
  /\ << response.key, response.provided >> \in used
  /\ ~response.result.valid
  /\ response.key \notin DOMAIN otp

\* the number of events of seq that go from `from` to `to`
CountEvents(seq, from, to) ==
  Cardinality({ i \in DOMAIN seq :
                  seq[i].from_status = from /\ seq[i].to_status = to })

\* C9: concurrent pickup assignments are serialized per courier: whatever
\* the interleaving of two assignment requests, a courier is the pickup
\* courier of at most one of the orders they assign, and its current_load
\* counts every order assigned to it (no increment is lost).
C9_AssignmentsSerialized ==
  \A r \in Riders :
    LET mine == { o \in DOMAIN orders : orders[o].pickup_rider_id = r }
    IN  /\ Cardinality(mine) <= 1
        /\ riders[r].current_load = Cardinality(mine)

\* C10: no pending set is optimized twice: under any interleaving of two
\* route-optimization triggers, an order is on at most one delivery route
\* and has at most one AT_WAREHOUSE to DELIVERY_RIDER_ASSIGNED event for
\* each time it was taken in at the depot.
C10_NoDoubleOptimization ==
  \A o \in DOMAIN orders :
    LET intakes == CountEvents(events[o], "IN_TRANSIT_TO_WAREHOUSE", "AT_WAREHOUSE")
        on_routes == { i \in DOMAIN routes :
                         o \in SeqToSet(routes[i].optimized_sequence) }
    IN  /\ Cardinality(on_routes) <= intakes
        /\ CountEvents(events[o], "AT_WAREHOUSE", "DELIVERY_RIDER_ASSIGNED")
             <= intakes

\* C11: capacity is enforced at assignment time: a step that changes a
\* courier's current_load (a pickup assignment or a route assignment)
\* leaves it at or below the courier's max_capacity.
C11_CapacityEnforced ==
  [][\A r \in Riders :
       riders'[r].current_load # riders[r].current_load
         => riders'[r].current_load <= riders'[r].max_capacity]_vars

\* a courier the pickup assignment can take: ON_DUTY, with a GPS position
\* or a depot to stand for it
EligibleCourier(rt) ==
  \E r \in Riders : rt[r].status = "ON_DUTY" /\ _rider_location(rt[r]) # Null

\* the step is an assign-rider call that attempts an assignment of o
AssignAttempt(o) ==
  /\ response'.op = "assign_rider"
  /\ response'.order = o
  /\ orders[o].status = "PAYMENT_CONFIRMED"
  /\ orders[o].pickup_rider_id = None

\* the step is a confirm-payment call that attempts an assignment of o
ConfirmAttempt(o) ==
  /\ response'.op = "confirm_payment"
  /\ response'.order = o
  /\ orders[o].payment # "PAID"

C14_OptimizeOnlyAtThreshold ==
  [][(response'.op = "optimize_routes" /\ routes' # routes)
       => \E w \in Warehouses :
            Cardinality(AtWarehouse(orders, w)) >= BATCH_THRESHOLD]_vars

\* C13: an order submitted twice with the same idempotency key gives one
\* order: no two orders share a key, and a create_order call whose key is
\* that of an existing order returns that order and changes no table.
C13_IdempotentCreate ==
  [][/\ \A a, b \in DOMAIN orders' :
          (orders'[a].idempotency_key # None
             /\ orders'[a].idempotency_key = orders'[b].idempotency_key)
            => a = b
     /\ \A o \in DOMAIN orders :
          (response'.op = "create_order" /\ response'.code = 200
             /\ response'.key # None
             /\ orders[o].idempotency_key = response'.key)
            => /\ response'.order = o
               /\ ~response'.created
               /\ UNCHANGED << orders, events, riders, routes, otp >>]_vars

\* C13 witness: the second submission of a key returned the one order that
\* holds it.
C13_Witness ==
  /\ response.op = "create_order"
  /\ response.code = 200
  /\ ~response.created
  /\ response.key # None
  /\ orders[response.order].idempotency_key = response.key
  /\ Cardinality({ o \in DOMAIN orders :
                     orders[o].idempotency_key = response.key }) = 1

\* the naive distance of a call: depot, point 1, ..., point N, depot over
\* the distance matrix of the call, in hundredths of a km
NaiveKm(depot, delivery_points) ==
  RoundKm(PathCost(_build_distance_matrix_from_points(<< depot >> \o delivery_points),
                   NaiveSequence(Len(delivery_points))))

SurgedOf(call) ==
  call.distance_km * RATE_PER_KM
    * VEHICLE_MULTIPLIER[determine_vehicle(call.weight_tier)]
    * TIME_FACTOR[call.time_factor_key] * call.surge_multiplier * 100

\* C16: total_cost is the larger of MINIMUM_CHARGE and surged + addons -
\* batch_discount - subscription_discount, with batch_discount 15% of the
\* surged subtotal for a batch-eligible order and 0 otherwise; so it is
\* never below MINIMUM_CHARGE, and 10 km by BIKE at STANDARD time,
\* batch-eligible, costs 100 - 15 = 85.
C16_PriceFormula ==
  response.op = "calculate_price" =>
    LET surged == SurgedOf(response)
        batch == IF response.is_batch_eligible THEN (surged \div 100) * 15 ELSE 0
        subscription ==
          SubscriptionDiscount(surged, response.subscription_plan,
                               response.free_deliveries_remaining)
        before_floor == surged + AddonsCost(response.addons) - batch - subscription
    IN  /\ response.price.total_cost
             = Round2(Max(before_floor, MINIMUM_CHARGE * Rupee))
        /\ response.price.batch_discount = Round2(batch)
        /\ response.price.total_cost >= MINIMUM_CHARGE * 100
        /\ (/\ response.distance_km = 10
            /\ response.price.vehicle_type = "BIKE"
            /\ response.time_factor_key = "STANDARD"
            /\ response.surge_multiplier = 10
            /\ response.addons = << >>
            /\ response.is_batch_eligible
            /\ response.subscription_plan = None)
           => /\ response.price.base_cost = 10000
              /\ response.price.batch_discount = 1500
              /\ response.price.total_cost = 8500

\* C16 witness: a call whose discounts take the subtotal below the floor
\* was charged the minimum.
C16_Witness ==
  /\ response.op = "calculate_price"
  /\ response.is_batch_eligible
  /\ response.subscription_plan = None
  /\ SurgedOf(response) + AddonsCost(response.addons) < MINIMUM_CHARGE * Rupee
  /\ response.price.total_cost = MINIMUM_CHARGE * 100

\* C17: for a batch-eligible order with a percentage subscription discount
\* the discounts multiply: the total before the floor is
\* surged x (1 - batch%) x (1 - subscription%) (plus add-ons), and it is
\* never negative.
C17_DiscountsMultiply ==
  (/\ response.op = "calculate_price"
   /\ response.is_batch_eligible
   /\ response.subscription_plan # None
   /\ response.free_deliveries_remaining = 0) =>
    LET pct == SUBSCRIPTION_PLANS[response.subscription_plan].discount_pct
        \* surged x (100 - 15) x (100 - pct) / 10000
        discounted ==
          ((SurgedOf(response) \div 1000) * (100 - BATCH_DISCOUNT_PCT)
             * (100 - pct)) \div 10
        before_floor == discounted + AddonsCost(response.addons)
    IN  /\ response.price.total_cost
             = Round2(Max(before_floor, MINIMUM_CHARGE * Rupee))
        /\ response.price.total_cost >= 0

\* C18: with a plan and free deliveries remaining the subscription zeroes
\* the surged-plus-addons subtotal: the total is MINIMUM_CHARGE whatever
\* add-ons are requested; a percentage discount is applied only when no
\* free delivery remains.
C18_FreeDeliveryZeroes ==
  (response.op = "calculate_price" /\ response.subscription_plan # None) =>
    IF response.free_deliveries_remaining > 0
      THEN response.price.total_cost = MINIMUM_CHARGE * 100
      ELSE response.price.subscription_discount
             = Round2((SurgedOf(response) \div 100)
                        * SUBSCRIPTION_PLANS[response.subscription_plan].discount_pct)

RECURSIVE CoveringThroughput(_, _)
\* the hourly throughput of the couriers whose shift covers `hour`
CoveringThroughput(hour, schedules) ==
  IF schedules = << >> THEN 0
  ELSE (IF Head(schedules).shift_start <= hour * 60
             /\ hour * 60 < Head(schedules).shift_end
          THEN (IF "max_pickups_per_hour" \in DOMAIN Head(schedules)
                  THEN Head(schedules).max_pickups_per_hour ELSE 3)
          ELSE 0)
       + CoveringThroughput(hour, Tail(schedules))

\* the bookings of `hour`
BookedAt(hour, scheduled) == IF hour \in DOMAIN scheduled THEN scheduled[hour] ELSE 0

\* C19: every window returned starts no earlier than now + 30 minutes, lies
\* within business hours (08:00 to 20:00), and has available_capacity equal
\* to the throughput of the couriers covering its hour minus the bookings of
\* that hour, which is positive; a window with nothing left is not returned.
C19_SlotsBufferedAndOpen ==
  response.op = "get_available_slots" =>
    \A i \in DOMAIN response.slots :
      LET slot == response.slots[i]
          hour == (slot.start % 1440) \div 60
      IN  /\ slot.start >= response.now + 30
          /\ 8 * 60 <= slot.start % 1440
          /\ slot.start % 1440 < 20 * 60
          /\ slot.end = slot.start + 60
          /\ slot.available_capacity
               = CoveringThroughput(hour, response.rider_schedules)
                   - BookedAt(hour, response.scheduled_pickups)
          /\ slot.available_capacity > 0

\* C19 witness: a call returned windows, none of them the fully booked hour
\* that was otherwise open (covered by couriers, later than now + 30 min).
C19_Witness ==
  /\ response.op = "get_available_slots"
  /\ response.slots # << >>
  /\ \E hour \in 8..19 :
       /\ hour * 60 >= response.now + 30
       /\ CoveringThroughput(hour, response.rider_schedules) > 0
       /\ BookedAt(hour, response.scheduled_pickups)
            >= CoveringThroughput(hour, response.rider_schedules)
       /\ \A i \in DOMAIN response.slots : response.slots[i].start # hour * 60

\* C20: for the current day no window is returned that starts at or after
\* the cutoff, close_time - cutoff_buffer = 20:00 - 90 min = 18:30.
C20_NoWindowAfterCutoff ==
  response.op = "get_available_slots" =>
    \A i \in DOMAIN response.slots :
      response.slots[i].start \div 1440 = response.now \div 1440
        => response.slots[i].start % 1440 < 20 * 60 - 90

\* C21: when the current time is after the cutoff (18:30 with the defaults)
\* no window of the current day is returned, while every window of a
\* following day within the horizon that has capacity left is returned.
C21_AfterCutoffOnlyLaterDays ==
  (response.op = "get_available_slots" /\ response.now % 1440 > 20 * 60 - 90) =>
    /\ \A i \in DOMAIN response.slots :
         response.slots[i].start \div 1440 # response.now \div 1440
    /\ \A day \in 1..response.days_ahead, hour \in 8..19 :
         CoveringThroughput(hour, response.rider_schedules)
             > BookedAt(hour, response.scheduled_pickups)
           => \E i \in DOMAIN response.slots :
                response.slots[i].start
                  = (response.now \div 1440 + day) * 1440 + hour * 60

\* C21 witness: a call after 18:30 whose 19:00 hour of today still had
\* capacity returned windows, all of them of the following day.
C21_Witness ==
  /\ response.op = "get_available_slots"
  /\ response.now % 1440 > 20 * 60 - 90
  /\ response.now % 1440 < 19 * 60
  /\ CoveringThroughput(19, response.rider_schedules)
       > BookedAt(19, response.scheduled_pickups)
  /\ response.slots # << >>
  /\ \A i \in DOMAIN response.slots :
       response.slots[i].start \div 1440 = response.now \div 1440 + 1

\* C22: issuing a code again for an (order, leg) pair that already has one
\* leaves the OTP store as it was: the code handed out stays valid and its
\* attempt counter is not reset.
C22_IssuanceIdempotent ==
  [][\A key \in OtpKeys :
       (key \in DOMAIN otp /\ response'.op = "generate_otp"
          /\ response'.key = key)
         => otp' = otp]_vars

\* C23: optimizing an already optimized depot batch is a no-op: an
\* optimize_routes call for a depot that directly follows one for the same
\* depot (no warehouse intake in between) creates no route and changes no
\* order, courier or event.
C23_ReoptimizeIsNoOp ==
  [][(response.op = "optimize_routes" /\ response'.op = "optimize_routes"
        /\ response'.warehouse_id = response.warehouse_id)
       => /\ routes' = routes
          /\ orders' = orders
          /\ riders' = riders
          /\ events' = events
          /\ response'.routes_created = 0]_vars

\* C23 witness: the depot has a route from an earlier optimization, its
\* parcels are on that route, and the call just answered created nothing.
C23_Witness ==
  /\ response.op = "optimize_routes"
  /\ response.routes_created = 0
  /\ \E i \in DOMAIN routes :
       /\ routes[i].warehouse_id = response.warehouse_id
       /\ \E o \in DOMAIN orders :
            /\ orders[o].status = "DELIVERY_RIDER_ASSIGNED"
            /\ orders[o].delivery_route_id = Some(i)

\* C24: every transition is committed together with its event: in the
\* committed tables the status of an order is the one its last event leads
\* to, and when a handler returns, its session holds no change made after
\* its last commit.
C24_CommittedWithEvent ==
  /\ \A o \in DOMAIN orders :
       /\ events[o] # << >>
       /\ events[o][Len(events[o])].to_status = orders[o].status
  /\ sess[TxProc].pc = "return" => sess[TxProc].tables = Committed

\* C25: a notification failure never fails the triggering transition: a
\* confirm-payment, assign-rider or optimize-routes request whose
\* notification was refused or raised answers, and leaves the orders,
\* riders, events and routes, exactly as the same request does when the
\* notification is delivered.
C25_NotificationFailureHarmless ==
  [][(response'.op \in {"confirm_payment", "assign_rider", "optimize_routes"}
        /\ response'.notify # "200")
       => LET sent ==
                IF response'.op = "confirm_payment"
                  THEN ConfirmNotifying(response'.order, response'.mode, "200")
                       @@ [routes |-> routes]
                ELSE IF response'.op = "assign_rider"
                  THEN AssignRiderNotifying(response'.order, "200")
                       @@ [routes |-> routes]
                ELSE OptimizeNotifying(response'.warehouse_id, response'.visit, "200")
          IN  /\ orders' = sent.orders
              /\ riders' = sent.riders
              /\ events' = sent.events
              /\ routes' = sent.routes
              /\ response'.code = sent.code
              /\ response'.code # 500]_vars

\* C25 witness: the Telegram call of an optimize-routes request raised, and
\* the route was created and its rider put ON_DELIVERY all the same.
C25_Witness ==
  /\ response.op = "optimize_routes"
  /\ response.notify = "error"
  /\ response.code = 200
  /\ response.routes_created > 0
  /\ \E i \in DOMAIN routes :
       /\ routes[i].rider_id # None
       /\ riders[routes[i].rider_id].status = "ON_DELIVERY"

\* C26: a create_order request that is not the replay of a stored
\* idempotency key and whose pickup or drop address cannot be resolved to
\* coordinates, or whose user is not registered, fails with an error (404
\* for the user, 400 for the addresses) and creates no order and no event;
\* and only such a request is answered with one of these errors.
C26_MalformedRejectedUnchanged ==
  [][response'.op = "create_order" =>
       LET malformed ==
             \/ ~response'.registered
             \/ geocode(response'.pickup_address) = Null
             \/ geocode(response'.drop_address) = Null
       IN  IF response'.code = 200 /\ ~response'.created
             THEN orders' = orders /\ events' = events
           ELSE /\ malformed <=> response'.code \in {400, 404}
                /\ malformed => (orders' = orders /\ events' = events)
                /\ ~response'.registered <=> response'.code = 404]_vars

\* C26 witness: with an order already stored, a registered user's request
\* with an unresolvable drop address was answered 400.
C26_Witness ==
  /\ response.op = "create_order"
  /\ response.code = 400
  /\ response.registered
  /\ geocode(response.pickup_address) # Null
  /\ geocode(response.drop_address) = Null
  /\ DOMAIN orders # {}
  /\ DOMAIN events = DOMAIN orders

\* C27: calculate_surge returns a multiplier from {1.0, 1.2, 1.4, 1.6}
\* (tenths here): 1.0 for a ratio active_orders / available_riders below 2,
\* 1.2 from 2, 1.4 from 4, 1.6 from 6 and whenever available_riders <= 0;
\* it is non-decreasing in the ratio; the reason is non-null exactly when
\* the multiplier exceeds 1.0; 15 orders and 3 couriers give >= 1.4 with a
\* reason.
C27_SurgeBands ==
  response.op = "calculate_surge" =>
    LET a == response.active_orders
        r == response.available_riders
        m == response.surge.multiplier
    IN  /\ m \in {10, 12, 14, 16}
        /\ m = (IF r <= 0 THEN 16
                ELSE IF a < 2 * r THEN 10
                ELSE IF a < 4 * r THEN 12
                ELSE IF a < 6 * r THEN 14
                ELSE 16)
        /\ (response.surge.reason # None) <=> (m > 10)
        /\ (a = 15 /\ r = 3) => (m >= 14 /\ response.surge.reason # None)
        /\ r > 0 =>
             \A a2 \in ActiveOrderCounts, r2 \in 1..MaxAvailableRiders :
               a2 * r <= a * r2 => calculate_surge(a2, r2).multiplier <= m

\* C27 witness: the call with 15 active orders and 3 couriers (ratio 5)
\* returned 1.4 with a reason.
C27_Witness ==
  /\ response.op = "calculate_surge"
  /\ response.active_orders = 15
  /\ response.available_riders = 3
  /\ response.surge.multiplier = 14
  /\ response.surge.reason # None

\* C28: determine_vehicle maps package size SMALL to BIKE, MEDIUM to BIKE,
\* LARGE to MINI_VAN, BULKY to MINI_TRUCK and any other size to BIKE, and
\* calculate_price prices the size with the multiplier of that vehicle.
C28_VehicleBySize ==
  response.op = "calculate_price" =>
    LET expected == CASE response.weight_tier = "LARGE" -> "MINI_VAN"
                      [] response.weight_tier = "BULKY" -> "MINI_TRUCK"
                      [] OTHER -> "BIKE"
        time_fact == IF response.time_factor_key \in DOMAIN TIME_FACTOR
                       THEN TIME_FACTOR[response.time_factor_key] ELSE 10
    IN  /\ response.price.vehicle_type = expected
        /\ response.price.vehicle_type \in DOMAIN VEHICLE_MULTIPLIER
        /\ response.price.base_cost
             = (response.distance_km * 10
                  * VEHICLE_MULTIPLIER[response.price.vehicle_type]
                  * time_fact * 1000 + 500) \div 1000

\* C29: determine_time_factor returns EXPRESS whenever express is
\* requested; otherwise NEXT_DAY when the slot's date is after today's;
\* otherwise SAME_DAY when the slot is at most 4 hours (240 minutes) after
\* now; otherwise STANDARD: one of the four buckets for every input.
C29_TimeFactorBuckets ==
  response.op = "determine_time_factor" =>
    LET slot_day == response.pickup_slot \div 1440
        today == response.now \div 1440
        minutes_until == response.pickup_slot - response.now
        bucket == response.time_factor
    IN  /\ bucket \in {"EXPRESS", "NEXT_DAY", "SAME_DAY", "STANDARD"}
        /\ bucket = "EXPRESS" <=> response.is_express
        /\ bucket = "NEXT_DAY" <=> (~response.is_express /\ slot_day > today)
        /\ bucket = "SAME_DAY"
             <=> (~response.is_express /\ slot_day <= today /\ minutes_until <= 240)
        /\ bucket = "STANDARD"
             <=> (~response.is_express /\ slot_day <= today /\ minutes_until > 240)

\* C29 witness: a non-express slot of today exactly 4 hours after now was
\* classified SAME_DAY.
C29_Witness ==
  /\ response.op = "determine_time_factor"
  /\ ~response.is_express
  /\ response.pickup_slot \div 1440 = response.now \div 1440
  /\ response.pickup_slot - response.now = 240
  /\ response.time_factor = "SAME_DAY"

\* the detour of a pickup at `loc` for a courier at `from` going home to
\* `depot`: courier to pickup plus pickup to depot, minus courier to depot
DetourOf(from, loc, depot) ==
  (Abs(from - loc) * 14) \div 10 + (Abs(loc - depot) * 14) \div 10
    - (Abs(from - depot) * 14) \div 10

\* the pending unassigned pickups within the maximum detour (2 km)
WithinDetour(from, depot) ==
  { o \in DOMAIN orders :
      /\ orders[o].status = "PICKUP_SCHEDULED"
      /\ orders[o].pickup_rider_id = None
      /\ DetourOf(from, orders[o].pickup_loc[1], depot) <= 200 }

AssignmentEffect(o, r, ot, rt, et) ==
  /\ orders' = [ot EXCEPT ![o].status = "PICKUP_RIDER_ASSIGNED",
                          ![o].pickup_rider_id = r]
  /\ riders' = [rt EXCEPT ![r].status = "ON_PICKUP",
                          ![r].current_load = rt[r].current_load + 1]
  /\ events' = [et EXCEPT ![o] = Append(et[o],
                                        OrderEvent(ot[o].status,
                                                   "PICKUP_RIDER_ASSIGNED",
                                                   "SYSTEM"))]
  /\ routes' = routes

RiderIndex(rider_seq, r) == CHOOSE i \in 1..Len(rider_seq) : rider_seq[i] = r

\* the distance the provider answered for rider r
TravelKm(r, pickup, travel) ==
  IF travel[r].kind = "routed" THEN travel[r].distance_km
  ELSE haversine_distance(_rider_location(riders[r]), pickup)

\* the pool the claim describes
ClaimedPool(pickup) ==
  LET candidates == { r \in Riders : riders[r].status = "ON_DUTY" }
      reporting == { r \in candidates : riders[r].current_loc # Null }
      eligible == IF reporting # {} THEN reporting
                  ELSE { r \in candidates : riders[r].warehouse_id # None }
      near == { r \in eligible :
                  haversine_distance(pickup, _rider_location(riders[r]))
                    <= ZONE_RADIUS_KM }
  IN  IF near # {} THEN near ELSE eligible

C32_SelectionRule ==
  response.op = "select" =>
    LET answered == { r \in ClaimedPool(response.pickup) :
                        response.travel[r].kind # "raises" }
        km(r) == TravelKm(r, response.pickup, response.travel)
        chosen == response.rider
    IN  IF answered = {} THEN chosen = None
        ELSE /\ chosen \in answered
             /\ response.distance_km = km(chosen)
             /\ \A q \in answered :
                  \/ km(chosen) < km(q)
                  \/ /\ km(chosen) = km(q)
                     /\ RiderIndex(response.rider_seq, chosen)
                          <= RiderIndex(response.rider_seq, q)

\* both riders report GPS, only r2 is in the zone and it is chosen although
\* r1's routed distance is shorter
C32_Witness ==
  /\ response.op = "select"
  /\ \A r \in Riders : riders[r].status = "ON_DUTY" /\ riders[r].current_loc # Null
  /\ ClaimedPool(response.pickup) = {"r2"}
  /\ response.travel["r1"] = Routed(5)
  /\ response.travel["r2"] = Routed(20)
  /\ response.rider = "r2"

(* ------------------------------------------------------------------ *)
(* C33: after optimize_routes with k >= 1 available riders, group i     *)
(* (from 0) goes to rider i mod k; every order of the group has status  *)
(* DELIVERY_RIDER_ASSIGNED and references the group's new route and that *)
(* rider; every rider that got a group is ON_DELIVERY with current_load  *)
(* equal to the number of parcels of the groups assigned to it.  Stated  *)
(* for calls whose parcels all have usable drop coordinates.             *)
(* ------------------------------------------------------------------ *)
\* the number of groups n parcels are cut into
GroupCount(n) == (n + MAX_PARCELS_PER_ROUTE - 1) \div MAX_PARCELS_PER_ROUTE

\* the positions in the parcel list that form group i (counted from 0)
GroupSlice(i, n) ==
  { j \in 1..n : (j - 1) \div MAX_PARCELS_PER_ROUTE = i }

C33_RoundRobinLoad ==
  [][ (response'.op = "optimize_routes" /\ response'.routes_created > 0) =>
        LET w == response'.warehouse_id
            parcels == SeqOfSet(AtWarehouse(orders, w))
            couriers == AvailableRiders(riders, w)
            k == Len(couriers)
            n == Len(parcels)
            courier(i) == couriers[(i % k) + 1]
        IN  (k > 0 /\ \A o \in SeqToSet(parcels) : Truthy(orders[o].drop_loc)) =>
              /\ \A i \in 0..(GroupCount(n) - 1) :
                   /\ routes'[Len(routes) + i + 1].rider_id = courier(i)
                   /\ \A j \in GroupSlice(i, n) :
                        /\ orders'[parcels[j]].status = "DELIVERY_RIDER_ASSIGNED"
                        /\ orders'[parcels[j]].delivery_route_id
                             = Some(Len(routes) + i + 1)
                        /\ orders'[parcels[j]].delivery_rider_id = courier(i)
              /\ \A c \in 1..k :
                   c <= GroupCount(n) =>
                     /\ riders'[couriers[c]].status = "ON_DELIVERY"
                     /\ riders'[couriers[c]].current_load =
                          Cardinality({ j \in 1..n :
                            ((j - 1) \div MAX_PARCELS_PER_ROUTE) % k = c - 1 }) ]_vars

(* ------------------------------------------------------------------ *)
(* C34: optimize_routes partitions the depot's pending parcels: every   *)
(* order that was AT_WAREHOUSE at the depot when the call started is    *)
(* referenced by exactly one newly created route, no new route has more *)
(* than MAX_PARCELS_PER_ROUTE parcels, and each new route's              *)
(* total_parcels equals the number of stops of its stored sequence.     *)
(* ------------------------------------------------------------------ *)
C34_ParcelsPartitioned ==
  [][ response'.op = "optimize_routes" =>
        LET w == response'.warehouse_id
            created == (Len(routes) + 1)..Len(routes')
        IN  /\ \A o \in AtWarehouse(orders, w) :
                 /\ Cardinality({ j \in created :
                                    o \in SeqToSet(routes'[j].optimized_sequence) }) = 1
                 /\ orders'[o].delivery_route_id # Null
                 /\ Val(orders'[o].delivery_route_id) \in created
                 /\ o \in SeqToSet(
                      routes'[Val(orders'[o].delivery_route_id)].optimized_sequence)
            /\ \A j \in created :
                 /\ routes'[j].total_parcels <= MAX_PARCELS_PER_ROUTE
                 /\ routes'[j].total_parcels = Len(routes'[j].optimized_sequence) ]_vars

(* ------------------------------------------------------------------ *)
(* C35: for every non-empty list of delivery points, whether or not the *)
(* solver finds a solution, optimize_route returns a stop sequence that *)
(* holds every delivery point exactly once and never the depot; when    *)
(* the solver finds no solution the stops are in input order, the total *)
(* distance is the naive one and the savings are zero.                  *)
(* ------------------------------------------------------------------ *)
\* how often v occurs in seq
Occurrences(seq, v) == Cardinality({ i \in 1..Len(seq) : seq[i] = v })

RECURSIVE TourMetres(_)
\* the length of the legs between consecutive points, in metres
TourMetres(points) ==
  IF Len(points) <= 1 THEN 0
  ELSE haversine_distance(points[1], points[2]) * 1000 + TourMetres(Tail(points))

C35_FallbackKeepsStops ==
  (response.op = "optimize_route" /\ response.delivery_points # << >>) =>
    LET stops == response.result.stop_details
        points == response.delivery_points
    IN  /\ Len(stops) = Len(points)
        /\ \A i \in 1..Len(points) :
             Occurrences(stops, points[i]) = Occurrences(points, points[i])
        /\ Occurrences(stops, response.depot) = 0
        /\ (Len(points) >= 2 /\ response.solution = Null) =>
             /\ stops = points
             /\ response.result.total_distance_km
                  = RoundKm(TourMetres(<< response.depot >> \o points
                                         \o << response.depot >>))
             /\ response.result.savings_vs_naive_km = 0

\* the solver found nothing for three stops whose input order is a detour
C35_Witness ==
  /\ response.op = "optimize_route"
  /\ response.solution = Null
  /\ response.delivery_points = << Some(40), Some(-15), Some(10) >>
  /\ response.result.stop_details = response.delivery_points
  /\ response.result.total_distance_km > 0

(* ------------------------------------------------------------------ *)
(* C36: under any interleaving of concurrent verify_otp calls for the   *)
(* same (order, leg), one generated code is accepted by at most one     *)
(* call, and after that success no entry for the pair is stored until a *)
(* new code is generated.                                               *)
(* ------------------------------------------------------------------ *)
\* the calls of the concurrent requests that were answered valid for key
AcceptedCalls(key) ==
  { p \in Procs : /\ sess[p].pc \in {"valid", "done"}
                  /\ sess[p].key = key
                  /\ sess[p].result.valid }

C36_AcceptedOnce ==
  \A key \in OtpSpecKeys :
    /\ Cardinality(AcceptedCalls(key)) <= 1
    /\ AcceptedCalls(key) # {} => key \notin DOMAIN otp

(* ------------------------------------------------------------------ *)
(* C37: under any interleaving of concurrent verify_otp calls for the   *)
(* same (order, leg), at most MAX_OTP_ATTEMPTS supplied codes are ever  *)
(* compared against one stored hash between two generations.            *)
(* ------------------------------------------------------------------ *)
\* the comparisons made against the hash of key since it was generated:
\* the failed ones and the accepted ones
Comparisons(key) == failed[key] + Cardinality(AcceptedCalls(key))

C37_AtMostThreeComparisons ==
  \A key \in OtpSpecKeys : Comparisons(key) <= MAX_OTP_ATTEMPTS

(* ------------------------------------------------------------------ *)
(* C38: a rider is released when its work ends: once every order        *)
(* assigned to a rider is delivered or cancelled, the system's own      *)
(* operations bring the rider's current_load back to 0 and its status   *)
(* back to ON_DUTY, without a manual status update.                     *)
(* ------------------------------------------------------------------ *)
\* the orders rider r was assigned to, for pickup or for delivery
OrdersOf(r) ==
  { o \in DOMAIN orders :
      orders[o].pickup_rider_id = r \/ orders[o].delivery_rider_id = r }

\* r was assigned at least once and all its orders are over
WorkEnded(r) ==
  /\ OrdersOf(r) # {}
  /\ \A o \in OrdersOf(r) :
       orders[o].status \in {"DELIVERED", "COMPLETED", "CANCELLED", "REFUNDED"}

Released(r) == riders[r].current_load = 0 /\ riders[r].status = "ON_DUTY"

C38_RiderReleased ==
  \A r \in Riders : WorkEnded(r) ~> Released(r)

(* ------------------------------------------------------------------ *)
(* C39: in every reachable state an order whose status is               *)
(* PICKUP_RIDER_ASSIGNED or PICKUP_EN_ROUTE has a pickup rider, and an   *)
(* order whose status is DELIVERY_RIDER_ASSIGNED or OUT_FOR_DELIVERY has *)
(* a delivery rider and a delivery route.                               *)
(* ------------------------------------------------------------------ *)
PickupLegHasRider(o) ==
  orders[o].status \in {"PICKUP_RIDER_ASSIGNED", "PICKUP_EN_ROUTE"}
    => orders[o].pickup_rider_id # None

DeliveryLegHasRiderAndRoute(o) ==
  orders[o].status \in {"DELIVERY_RIDER_ASSIGNED", "OUT_FOR_DELIVERY"}
    => /\ orders[o].delivery_rider_id # None
       /\ orders[o].delivery_route_id # Null

C39_StatusHasReferences ==
  \A o \in DOMAIN orders :
    PickupLegHasRider(o) /\ DeliveryLegHasRiderAndRoute(o)

(* ------------------------------------------------------------------ *)
(* C40: when two create_order requests with the same idempotency key    *)
(* run concurrently, under any interleaving exactly one order is stored *)
(* and both requests return it; neither fails, and there is no second   *)
(* order and no second creation event.                                  *)
(* ------------------------------------------------------------------ *)
\* the orders stored under an idempotency key
StoredUnder(key) == { o \in DOMAIN orders : orders[o].idempotency_key = key }

\* both requests are answered, carried the same key, and neither was
\* turned away for its user or its addresses
SameKeyAnswered(p, q) ==
  /\ p # q
  /\ sess[p].pc = "done" /\ sess[q].pc = "done"
  /\ sess[p].key # None /\ sess[p].key = sess[q].key
  /\ sess[p].code \notin {400, 404} /\ sess[q].code \notin {400, 404}

C40_SameKeyOneOrder ==
  \A p, q \in Procs :
    SameKeyAnswered(p, q)
      => /\ Cardinality(StoredUnder(sess[p].key)) = 1
         /\ sess[p].code = 200 /\ sess[q].code = 200
         /\ sess[p].order = sess[q].order
         /\ sess[p].order \in StoredUnder(sess[p].key)
         /\ Len(events[sess[p].order]) = 1

====
